---- MODULE Spec2Model ----
(***************************************************************************)
(* A model of the dz-mcp-memory core: the in-memory Storage Port           *)
(* (MemoryDatabase), the MemoryService (chunker, metadata detector,        *)
(* memorize, getMemory, searchMemories) and the ReorganizerService         *)
(* (tag merge, cleanup, optimize, statistics); with them searchMemories,   *)
(* getMemory, updateMemory and cleanup of the SQL Storage Ports            *)
(* (SqliteDatabase, PgVectorDatabase) on the same rows, the memorize tool  *)
(* of the MCP front end (parseMemorizeParams), the tool dispatcher         *)
(* (processRequest) and the HTTP handler in front of it (handleRequest).   *)
(*                                                                         *)
(* Strings of the program are sequences of one-character strings, so that  *)
(* toLowerCase, includes, trim, split and the Levenshtein distance are     *)
(* computed as the code computes them.  An optional value (a TypeScript    *)
(* `x?: T`) is the empty sequence when undefined and <<v>> when given.     *)
(* The id `mem-<n>` of a record is the number n.                           *)
(*                                                                         *)
(* The callers await a memorize, searchMemories or reorganize call before  *)
(* they issue the next one, as the CLI and the tests do; getMemory calls   *)
(* of different callers overlap.  lastOp holds what the operation that has *)
(* just run was given and what it returned, until Continue clears it.      *)
(***************************************************************************)
EXTENDS Integers, Sequences, FiniteSets, TLC

\* ------------------------------------------------------------------ bounds

\* Largest id the store hands out between two initialize() calls.
MaxId == 2
\* Largest value of the clock (new Date()).
MaxTime == 1
\* Largest accessCount a getMemory call is allowed to produce.
MaxAccess == 2

\* The longest text given to the chunker on its own
MaxTextLen == 5

\* The largest chunkSize the chunker is given on its own
MaxChunkSize == 4

\* The longest list of tags given to groupSimilarTags on its own
MaxTags == 4

\* --------------------------------------------------------- optional values

None == <<>>

Some(v) == <<v>>

IsGiven(o) == o # <<>>

Val(o) == o[1]

\* JavaScript truthiness of an optional number (undefined and 0 are falsy).
TruthyNum(o) == IsGiven(o) /\ Val(o) # 0

\* JavaScript truthiness of an optional string (undefined and "" are falsy).
TruthyStr(o) == IsGiven(o) /\ Val(o) # <<>>

Min(a, b) == IF a <= b THEN a ELSE b

Max(a, b) == IF a >= b THEN a ELSE b

\* ----------------------------------------------------------------- strings

LowerChars == <<"a", "b", "c", "d", "e", "f", "g", "h", "i", "j", "k", "l", "m", "n", "o", "p", "q", "r", "s", "t", "u", "v", "w", "x", "y", "z">>

UpperChars == <<"A", "B", "C", "D", "E", "F", "G", "H", "I", "J", "K", "L", "M", "N", "O", "P", "Q", "R", "S", "T", "U", "V", "W", "X", "Y", "Z">>

IsLower(c) == \E i \in 1..26 : LowerChars[i] = c

IsUpper(c) == \E i \in 1..26 : UpperChars[i] = c

\* The characters matched by \s among those the model's texts use.
IsSpace(c) == c \in {" ", "\n", "\t"}

ToLowerChar(c) == IF IsUpper(c) THEN LowerChars[CHOOSE i \in 1..26 : UpperChars[i] = c] ELSE c

\* String.prototype.toLowerCase
toLowerCase(s) == [i \in 1..Len(s) |-> ToLowerChar(s[i])]

\* s.slice(a, b) with 0 <= a, b <= s.length, as a 1-based subsequence
Slice(s, a, b) == IF b <= a THEN <<>> ELSE SubSeq(s, a + 1, b)

\* String.prototype.startsWith at 0-based position p
StartsAt(s, sub, p) == p + Len(sub) <= Len(s) /\ \A k \in 1..Len(sub) : s[p + k] = sub[k]

\* String.prototype.includes
includes(s, sub) == \E p \in 0..Len(s) : StartsAt(s, sub, p)

\* String.prototype.trim
trim(s) ==
  IF \A i \in 1..Len(s) : IsSpace(s[i]) THEN <<>>
  ELSE LET a == CHOOSE i \in 1..Len(s) : ~IsSpace(s[i]) /\ \A k \in 1..(i - 1) : IsSpace(s[k])
           b == CHOOSE i \in 1..Len(s) : ~IsSpace(s[i]) /\ \A k \in (i + 1)..Len(s) : IsSpace(s[k])
       IN SubSeq(s, a, b)

\* text.replace(/\s+/g, " "): every maximal run of whitespace becomes one space
RECURSIVE CollapseSpaces(_)
CollapseSpaces(s) ==
  IF s = <<>> THEN <<>>
  ELSE IF IsSpace(s[1])
       THEN IF Len(s) > 1 /\ IsSpace(s[2]) THEN CollapseSpaces(Tail(s))
            ELSE <<" ">> \o CollapseSpaces(Tail(s))
       ELSE <<s[1]>> \o CollapseSpaces(Tail(s))

\* ----------------------------------------------------------------- chunker

\* MemoryService's chunkSize option (500 by default; the tests construct it with
\* 50).  The model's texts are short, so the service is constructed with a small one.
chunkSize == 12

\* The 1-based index where a match of /\n\s*\n/ that starts at index i ends
\* (\s* is greedy: the last newline of the whitespace run), 0 if none starts there.
ParagraphBreakEnd(s, i) ==
  IF s[i] # "\n" THEN 0
  ELSE LET ends == {q \in (i + 1)..Len(s) : s[q] = "\n" /\ \A k \in (i + 1)..(q - 1) : IsSpace(s[k])}
       IN IF ends = {} THEN 0 ELSE CHOOSE q \in ends : \A r \in ends : r <= q

\* normalized.split(/\n\s*\n/)
RECURSIVE SplitParagraphs(_)
SplitParagraphs(s) ==
  LET starts == {i \in 1..Len(s) : ParagraphBreakEnd(s, i) # 0}
  IN IF starts = {} THEN <<s>>
     ELSE LET i == CHOOSE x \in starts : \A y \in starts : x <= y
              q == ParagraphBreakEnd(s, i)
          IN <<SubSeq(s, 1, i - 1)>> \o SplitParagraphs(SubSeq(s, q + 1, Len(s)))

IsSentenceEnd(c) == c \in {".", "!", "?"}

\* paragraph.split(/(?<=[.!?])\s+/)
RECURSIVE SplitSentences(_)
SplitSentences(s) ==
  LET starts == {i \in 2..Len(s) : IsSentenceEnd(s[i - 1]) /\ IsSpace(s[i])}
  IN IF starts = {} THEN <<s>>
     ELSE LET i == CHOOSE x \in starts : \A y \in starts : x <= y
              j == CHOOSE q \in i..Len(s) :
                     /\ \A k \in i..q : IsSpace(s[k])
                     /\ (q = Len(s) \/ ~IsSpace(s[q + 1]))
          IN <<SubSeq(s, 1, i - 1)>> \o SplitSentences(SubSeq(s, j + 1, Len(s)))

\* The sentence loop joining the sentences of a chunk without a space
PackStepNoSpace(st, sentence, size) ==
  LET trimmed == trim(sentence)
  IN IF Len(trimmed) = 0 THEN st
     ELSE LET flush == Len(st.currentChunk) + Len(trimmed) > size /\ Len(st.currentChunk) > 0
              chunks1 == IF flush THEN Append(st.chunks, trim(st.currentChunk)) ELSE st.chunks
              cur1 == IF flush THEN <<>> ELSE st.currentChunk
          IN [chunks |-> chunks1, currentChunk |-> cur1 \o trimmed]

\* The sentence loop of splitTextIntoChunks: st = [chunks, currentChunk]
PackStep(st, sentence, size) ==
  LET trimmed == trim(sentence)
  IN IF Len(trimmed) = 0 THEN st
     ELSE LET flush == Len(st.currentChunk) + Len(trimmed) > size /\ Len(st.currentChunk) > 0
              chunks1 == IF flush THEN Append(st.chunks, trim(st.currentChunk)) ELSE st.chunks
              cur1 == IF flush THEN <<>> ELSE st.currentChunk
          IN [chunks |-> chunks1,
              currentChunk |-> cur1 \o (IF Len(cur1) > 0 THEN <<" ">> ELSE <<>>) \o trimmed]

RECURSIVE PackSentences(_, _, _, _)
PackSentences(sentences, k, st, size) ==
  IF k > Len(sentences) THEN st
  ELSE PackSentences(sentences, k + 1, PackStep(st, sentences[k], size), size)

\* The chunks one paragraph contributes
ParagraphChunks(paragraph, size) ==
  IF Len(trim(paragraph)) = 0 THEN <<>>
  ELSE IF Len(paragraph) <= size THEN <<trim(paragraph)>>
  ELSE LET st == PackSentences(SplitSentences(paragraph), 1,
                               [chunks |-> <<>>, currentChunk |-> <<>>], size)
       IN IF Len(st.currentChunk) > 0 THEN Append(st.chunks, trim(st.currentChunk))
          ELSE st.chunks

RECURSIVE ConcatParagraphChunks(_, _, _)
ConcatParagraphChunks(paragraphs, k, size) ==
  IF k > Len(paragraphs) THEN <<>>
  ELSE ParagraphChunks(paragraphs[k], size) \o ConcatParagraphChunks(paragraphs, k + 1, size)

\* MemoryService.splitTextIntoChunks with this.chunkSize = size
splitTextIntoChunksWith(text, size) ==
  ConcatParagraphChunks(SplitParagraphs(trim(CollapseSpaces(text))), 1, size)

splitTextIntoChunks(text) == splitTextIntoChunksWith(text, chunkSize)

\* ------------------------------------------------------- metadata detector

Range(seq) == {seq[i] : i \in 1..Len(seq)}

\* Set.prototype.add on a Set kept in insertion order (Array.from gives that order)
SetAdd(seq, x) == IF x \in Range(seq) THEN seq ELSE Append(seq, x)

RECURSIVE SetAddAll(_, _, _)
SetAddAll(seq, xs, k) == IF k > Len(xs) THEN seq ELSE SetAddAll(SetAdd(seq, xs[k]), xs, k + 1)

\* Last index of the maximal run of lowercase letters that starts at i
RECURSIVE LowerRunEnd(_, _)
LowerRunEnd(s, i) == IF i < Len(s) /\ IsLower(s[i + 1]) THEN LowerRunEnd(s, i + 1) ELSE i

RECURSIVE UpperRunEnd(_, _)
UpperRunEnd(s, i) == IF i < Len(s) /\ IsUpper(s[i + 1]) THEN UpperRunEnd(s, i + 1) ELSE i

\* (?:[A-Z][a-z]+)* continued after index e
RECURSIVE CamelExtend(_, _)
CamelExtend(s, e) ==
  IF e + 2 <= Len(s) /\ IsUpper(s[e + 1]) /\ IsLower(s[e + 2])
  THEN CamelExtend(s, LowerRunEnd(s, e + 2)) ELSE e

\* (?:-[a-z]+)* continued after index e
RECURSIVE KebabExtend(_, _)
KebabExtend(s, e) ==
  IF e + 2 <= Len(s) /\ s[e + 1] = "-" /\ IsLower(s[e + 2])
  THEN KebabExtend(s, LowerRunEnd(s, e + 2)) ELSE e

\* Where a match of tagPatterns[kind] that starts at index p ends, 0 if none does:
\*   1: /[A-Z][a-z]+(?:[A-Z][a-z]+)*/   2: /[a-z]+(?:-[a-z]+)*/   3: /[A-Z]{2,}/
PatternMatchEnd(kind, s, p) ==
  CASE kind = 1 -> IF p + 1 <= Len(s) /\ IsUpper(s[p]) /\ IsLower(s[p + 1])
                   THEN CamelExtend(s, LowerRunEnd(s, p + 1)) ELSE 0
    [] kind = 2 -> IF IsLower(s[p]) THEN KebabExtend(s, LowerRunEnd(s, p)) ELSE 0
    [] kind = 3 -> IF p + 1 <= Len(s) /\ IsUpper(s[p]) /\ IsUpper(s[p + 1])
                   THEN UpperRunEnd(s, p) ELSE 0

\* text.match(pattern) for a global pattern: the successive leftmost matches
RECURSIVE MatchAll(_, _, _)
MatchAll(kind, s, p) ==
  IF p > Len(s) THEN <<>>
  ELSE LET e == PatternMatchEnd(kind, s, p)
       IN IF e = 0 THEN MatchAll(kind, s, p + 1)
          ELSE <<SubSeq(s, p, e)>> \o MatchAll(kind, s, e + 1)

\* The inner loop of extractTagsFromText: matches of length >= 3, lowercased
RECURSIVE AddMatches(_, _, _)
AddMatches(tags, matches, k) ==
  IF k > Len(matches) THEN tags
  ELSE AddMatches(IF Len(matches[k]) >= 3 THEN SetAdd(tags, toLowerCase(matches[k])) ELSE tags,
                  matches, k + 1)

technicalTerms == <<
  <<"a", "p", "i">>,
  <<"h", "t", "t", "p">>,
  <<"h", "t", "t", "p", "s">>,
  <<"j", "s", "o", "n">>,
  <<"x", "m", "l">>,
  <<"s", "q", "l">>,
  <<"n", "o", "s", "q", "l">>,
  <<"r", "e", "a", "c", "t">>,
  <<"v", "u", "e">>,
  <<"a", "n", "g", "u", "l", "a", "r">>,
  <<"n", "o", "d", "e">>,
  <<"p", "y", "t", "h", "o", "n">>,
  <<"j", "a", "v", "a">>,
  <<"j", "a", "v", "a", "s", "c", "r", "i", "p", "t">>,
  <<"t", "y", "p", "e", "s", "c", "r", "i", "p", "t">>,
  <<"d", "o", "c", "k", "e", "r">>,
  <<"k", "u", "b", "e", "r", "n", "e", "t", "e", "s">>,
  <<"a", "w", "s">>,
  <<"a", "z", "u", "r", "e">>,
  <<"g", "c", "p">>,
  <<"g", "i", "t">>,
  <<"g", "i", "t", "h", "u", "b">>,
  <<"g", "i", "t", "l", "a", "b">>,
  <<"j", "e", "n", "k", "i", "n", "s">>,
  <<"c", "i">>,
  <<"c", "d">>,
  <<"r", "e", "s", "t">>,
  <<"g", "r", "a", "p", "h", "q", "l">>,
  <<"w", "e", "b", "s", "o", "c", "k", "e", "t">>,
  <<"o", "a", "u", "t", "h">>,
  <<"j", "w", "t">>,
  <<"s", "s", "l">>,
  <<"t", "l", "s">>,
  <<"c", "d", "n">>,
  <<"a", "p", "i">>,
  <<"d", "a", "t", "a", "b", "a", "s", "e">>,
  <<"c", "a", "c", "h", "e">>,
  <<"r", "e", "d", "i", "s">>,
  <<"p", "o", "s", "t", "g", "r", "e", "s">>,
  <<"m", "y", "s", "q", "l">>,
  <<"m", "o", "n", "g", "o", "d", "b">>,
  <<"e", "l", "a", "s", "t", "i", "c", "s", "e", "a", "r", "c", "h">> >>

RECURSIVE AddTerms(_, _, _)
AddTerms(tags, lowerText, k) ==
  IF k > Len(technicalTerms) THEN tags
  ELSE AddTerms(IF includes(lowerText, technicalTerms[k]) THEN SetAdd(tags, technicalTerms[k]) ELSE tags,
                lowerText, k + 1)

\* MemoryService.extractTagsFromText
extractTagsFromText(text) ==
  LET t1 == AddMatches(<<>>, MatchAll(1, text, 1), 1)
      t2 == AddMatches(t1, MatchAll(2, text, 1), 1)
      t3 == AddMatches(t2, MatchAll(3, text, 1), 1)
  IN AddTerms(t3, toLowerCase(text), 1)

IncludesAny(lowerText, words) == \E w \in words : includes(lowerText, w)

\* MemoryService.detectCategory (None is undefined)
detectCategory(text) ==
  LET lowerText == toLowerCase(text)
  IN IF IncludesAny(lowerText, {<<"b", "u", "g">>, <<"e", "r", "r", "o", "r">>, <<"i", "s", "s", "u", "e">>}) THEN Some("troubleshooting")
     ELSE IF IncludesAny(lowerText, {<<"a", "p", "i">>, <<"e", "n", "d", "p", "o", "i", "n", "t">>, <<"r", "e", "s", "t">>}) THEN Some("api")
     ELSE IF IncludesAny(lowerText, {<<"d", "a", "t", "a", "b", "a", "s", "e">>, <<"s", "q", "l">>, <<"q", "u", "e", "r", "y">>}) THEN Some("database")
     ELSE IF IncludesAny(lowerText, {<<"d", "e", "p", "l", "o", "y">>, <<"d", "o", "c", "k", "e", "r">>, <<"k", "u", "b", "e", "r", "n", "e", "t", "e", "s">>}) THEN Some("deployment")
     ELSE IF IncludesAny(lowerText, {<<"t", "e", "s", "t">>, <<"s", "p", "e", "c">>, <<"u", "n", "i", "t">>}) THEN Some("testing")
     ELSE None

RECURSIVE LowercaseAll(_, _)
LowercaseAll(tags, k) ==
  IF k > Len(tags) THEN <<>> ELSE <<toLowerCase(tags[k])>> \o LowercaseAll(tags, k + 1)

\* MemoryService.detectMetadata: params = [text, tags, context, source, priority, category]
detectMetadata(chunk, params) ==
  LET userTags == IF IsGiven(params.tags) THEN SetAddAll(<<>>, LowercaseAll(Val(params.tags), 1), 1)
                  ELSE <<>>
      tags == SetAddAll(userTags, extractTagsFromText(chunk), 1)
  IN [tags |-> tags,
      context |-> params.context,
      source |-> params.source,
      priority |-> IF TruthyNum(params.priority) THEN Val(params.priority) ELSE 5,
      category |-> IF IsGiven(params.category) /\ Val(params.category) # ""
                   THEN params.category ELSE detectCategory(chunk),
      relatedIds |-> <<>>]

\* -------------------------------------------------- storage port (in memory)

VARIABLES
  memories,   \* MemoryDatabase.#memories: id -> MemoryChunk (a Map; ids are handed out
              \* in increasing order, so its iteration order is ascending id)
  nextId,     \* MemoryDatabase.#nextId
  now,        \* the clock read by new Date()
  reads,      \* history: id -> number of getMemory calls made on the stored record
  pending,    \* caller -> the getMemory call it awaits (None when it awaits nothing)
  issued,     \* history: the ids storeMemory has returned since the store was constructed
  lastOp      \* the last completed operation: its name, parameters and result

vars == <<memories, nextId, now, reads, pending, issued, lastOp>>

\* The ids of the stored records in Map iteration order
RECURSIVE AscendingIds(_)
AscendingIds(S) ==
  IF S = {} THEN <<>>
  ELSE LET m == CHOOSE x \in S : \A y \in S : x <= y
       IN <<m>> \o AscendingIds(S \ {m})

\* Array.from(this.#memories.values()) as the sequence of ids
MemoryIds(mem) == AscendingIds(DOMAIN mem)

\* A function with one more (or one replaced) key: Map.prototype.set
MapSet(f, k, v) == [x \in (DOMAIN f) \cup {k} |-> IF x = k THEN v ELSE f[x]]

\* Map.prototype.delete for a set of keys
MapDelete(f, ks) == [x \in (DOMAIN f) \ ks |-> f[x]]

\* storeMemory that hands out the id without keeping the record
storeMemoryNotKept(db, memory, t) ==
  LET id == db.nextId
      newMemory == [id |-> id, text |-> memory.text, metadata |-> memory.metadata,
                    createdAt |-> t, updatedAt |-> t, accessCount |-> 0, lastAccessedAt |-> t]
  IN [db |-> [memories |-> db.memories, nextId |-> db.nextId + 1], memory |-> newMemory]

\* MemoryDatabase.storeMemory at time t: db = [memories, nextId]
storeMemory(db, memory, t) ==
  LET id == db.nextId
      newMemory == [id |-> id, text |-> memory.text, metadata |-> memory.metadata,
                    createdAt |-> t, updatedAt |-> t, accessCount |-> 0, lastAccessedAt |-> t]
  IN [db |-> [memories |-> MapSet(db.memories, id, newMemory), nextId |-> db.nextId + 1],
      memory |-> newMemory]

\* A getMemory that marks every record as accessed at time t
getMemoryTouchAll(mem, id, t) ==
  [memories |-> [x \in DOMAIN mem |-> [mem[x] EXCEPT !.lastAccessedAt = t]],
   result |-> IF id \in DOMAIN mem THEN Some(mem[id]) ELSE None]

\* getMemory's write-back without the count: the update a second reader loses
getMemoryUpdateNoCount(memory, t) ==
  [memory EXCEPT !.lastAccessedAt = t, !.updatedAt = t]

\* The record MemoryDatabase.getMemory writes back and returns for a stored record
getMemoryUpdate(memory, t) ==
  [memory EXCEPT !.accessCount = memory.accessCount + 1, !.lastAccessedAt = t, !.updatedAt = t]

\* MemoryDatabase.getMemory at time t: the new map and the returned value (None: undefined)
getMemory(mem, id, t) ==
  IF id \in DOMAIN mem
  THEN LET updatedMemory == getMemoryUpdate(mem[id], t)
       IN [memories |-> MapSet(mem, id, updatedMemory), result |-> Some(updatedMemory)]
  ELSE [memories |-> mem, result |-> None]

\* MemoryDatabase.updateMemory: { ...memory, ...updates, updatedAt: new Date() };
\* updates is a record of the fields the caller passes
updateMemory(mem, id, updates, t) ==
  IF id \notin DOMAIN mem THEN [memories |-> mem, result |-> None]
  ELSE LET spread == [f \in DOMAIN mem[id] |->
                        IF f \in DOMAIN updates THEN updates[f] ELSE mem[id][f]]
           updatedMemory == [spread EXCEPT !.updatedAt = t]
       IN [memories |-> MapSet(mem, id, updatedMemory), result |-> Some(updatedMemory)]

\* Array.prototype.sort with a consistent comparator (the sort is stable): the
\* element at position p is the one that p - 1 others precede
StableSort(seq, cmp) ==
  LET n == Len(seq)
      before(j, i) == cmp[seq[j], seq[i]] < 0 \/ (cmp[seq[j], seq[i]] = 0 /\ j < i)
      rank(i) == Cardinality({j \in 1..n : before(j, i)}) + 1
  IN [p \in 1..n |-> seq[CHOOSE i \in 1..n : rank(i) = p]]

\* Array.prototype.slice(start, end): a negative index counts from the end
SliceIndex(n, k) == IF k < 0 THEN Max(n + k, 0) ELSE Min(k, n)

JsSlice(seq, start, end) ==
  Slice(seq, SliceIndex(Len(seq), start), SliceIndex(Len(seq), end))

\* Array.prototype.filter on a sequence of ids
RECURSIVE FilterSeq(_, _, _)
FilterSeq(seq, keep, k) ==
  IF k > Len(seq) THEN <<>>
  ELSE (IF keep[seq[k]] THEN <<seq[k]>> ELSE <<>>) \o FilterSeq(seq, keep, k + 1)

\* The filters of MemoryDatabase.searchMemories, applied to one record
MatchesTags(m, params) ==
  (IsGiven(params.tags) /\ Len(Val(params.tags)) > 0)
    => \E i \in 1..Len(Val(params.tags)) : Val(params.tags)[i] \in Range(m.metadata.tags)

MatchesCategory(m, params) ==
  (IsGiven(params.category) /\ Val(params.category) # "") => m.metadata.category = params.category

\* The date filters with the bounds themselves left out
MatchesDatesExclusive(m, params) ==
  /\ IsGiven(params.dateFrom) => m.createdAt > Val(params.dateFrom)
  /\ IsGiven(params.dateTo) => m.createdAt < Val(params.dateTo)

MatchesDates(m, params) ==
  /\ IsGiven(params.dateFrom) => m.createdAt >= Val(params.dateFrom)
  /\ IsGiven(params.dateTo) => m.createdAt <= Val(params.dateTo)

MatchesQuery(m, params) ==
  TruthyStr(params.query) =>
    LET query == toLowerCase(Val(params.query))
    IN \/ includes(toLowerCase(m.text), query)
       \/ \E i \in 1..Len(m.metadata.tags) : includes(toLowerCase(m.metadata.tags[i]), query)
       \/ (TruthyStr(m.metadata.context) /\ includes(toLowerCase(Val(m.metadata.context)), query))

MatchesFilters(m, params) ==
  MatchesTags(m, params) /\ MatchesCategory(m, params) /\ MatchesDates(m, params)
    /\ MatchesQuery(m, params)

\* The comparator of searchMemories' sort
SearchCompare(a, b, params) ==
  LET sortBy == IF IsGiven(params.sortBy) THEN Val(params.sortBy) ELSE "date"
      sortOrder == IF IsGiven(params.sortOrder) THEN Val(params.sortOrder) ELSE "desc"
      comparison == CASE sortBy = "date" -> a.createdAt - b.createdAt
                      [] sortBy = "access" -> a.accessCount - b.accessCount
                      [] sortBy = "priority" -> a.metadata.priority - b.metadata.priority
                      [] sortBy = "relevance" -> a.accessCount - b.accessCount
  IN IF sortOrder = "desc" THEN 0 - comparison ELSE comparison

\* The hasMore flag searchMemories computes
SearchHasMore(offset, limit, total) == offset + limit < total

\* MemoryDatabase.searchMemories: memories as the sequence of returned ids
searchMemories(mem, params) ==
  LET keep == [id \in DOMAIN mem |-> MatchesFilters(mem[id], params)]
      filtered == FilterSeq(MemoryIds(mem), keep, 1)
      cmp == [x \in DOMAIN mem, y \in DOMAIN mem |-> SearchCompare(mem[x], mem[y], params)]
      sorted == StableSort(filtered, cmp)
      offset == IF TruthyNum(params.offset) THEN Val(params.offset) ELSE 0
      limit == IF TruthyNum(params.limit) THEN Val(params.limit) ELSE 50
      total == Len(sorted)
  IN [memories |-> JsSlice(sorted, offset, offset + limit),
      total |-> total,
      hasMore |-> SearchHasMore(offset, limit, total),
      offset |-> offset,
      limit |-> limit]

\* MemoryDatabase.getAllTags: the tags in first-seen order
RECURSIVE CollectTags(_, _, _, _)
CollectTags(mem, ids, k, acc) ==
  IF k > Len(ids) THEN acc
  ELSE CollectTags(mem, ids, k + 1, SetAddAll(acc, mem[ids[k]].metadata.tags, 1))

getAllTags(mem) == CollectTags(mem, MemoryIds(mem), 1, <<>>)

\* MemoryDatabase.getAllCategories: the non-empty categories in first-seen order
RECURSIVE CollectCategories(_, _, _, _)
CollectCategories(mem, ids, k, acc) ==
  IF k > Len(ids) THEN acc
  ELSE LET category == mem[ids[k]].metadata.category
       IN CollectCategories(mem, ids, k + 1,
                            IF IsGiven(category) /\ Val(category) # ""
                            THEN SetAdd(acc, Val(category)) ELSE acc)

getAllCategories(mem) == CollectCategories(mem, MemoryIds(mem), 1, <<>>)

\* MemoryDatabase.getStats().totalMemories
totalMemories(mem) == Cardinality(DOMAIN mem)

\* MemoryDatabase.getStats (None is null)
getStats(mem) ==
  LET created == {mem[id].createdAt : id \in DOMAIN mem}
  IN [totalMemories |-> totalMemories(mem),
      totalTags |-> Len(getAllTags(mem)),
      totalCategories |-> Len(getAllCategories(mem)),
      oldestMemory |-> IF created = {} THEN None
                       ELSE Some(CHOOSE t \in created : \A u \in created : t <= u),
      newestMemory |-> IF created = {} THEN None
                       ELSE Some(CHOOSE t \in created : \A u \in created : t >= u)]

\* cleanup's comparator on createdAt alone (ORDER BY created_at)
CleanupCompareByDate(a, b) == a.createdAt - b.createdAt

\* The comparator of cleanup's sort: least accessed first, then oldest first
CleanupCompare(a, b) ==
  LET accessDiff == a.accessCount - b.accessCount
  IN IF accessDiff # 0 THEN accessDiff ELSE a.createdAt - b.createdAt

\* cleanup's slice one record short
cleanupVictimsOneShort(mem, maxMemories) ==
  IF ~TruthyNum(maxMemories) THEN <<>>
  ELSE IF Cardinality(DOMAIN mem) <= Val(maxMemories) THEN <<>>
  ELSE LET cmp == [x \in DOMAIN mem, y \in DOMAIN mem |-> CleanupCompare(mem[x], mem[y])]
           sorted == StableSort(MemoryIds(mem), cmp)
       IN JsSlice(sorted, 0, Len(sorted) - Val(maxMemories) - 1)

\* The ids MemoryDatabase.cleanup deletes (its toRemove), in order
cleanupVictims(mem, maxMemories) ==
  IF ~TruthyNum(maxMemories) THEN <<>>
  ELSE IF Cardinality(DOMAIN mem) <= Val(maxMemories) THEN <<>>
  ELSE LET cmp == [x \in DOMAIN mem, y \in DOMAIN mem |-> CleanupCompare(mem[x], mem[y])]
           sorted == StableSort(MemoryIds(mem), cmp)
       IN JsSlice(sorted, 0, Len(sorted) - Val(maxMemories))

\* MemoryDatabase.cleanup: the new map and the number of records removed
cleanup(mem, maxMemories) ==
  LET toRemove == cleanupVictims(mem, maxMemories)
  IN [memories |-> MapDelete(mem, Range(toRemove)), removed |-> Len(toRemove)]

\* ------------------------------------------ storage port (SQLite): search
\* SqliteDatabase keeps the same rows under the same ids (storeMemory numbers
\* them mem-<nextId> and inserts the record; deleteMemory deletes the row), so
\* `memories` is also the content of its table.

\* JSON.stringify of a list of tags: the text JSON_EXTRACT(metadata, '$.tags') gives
RECURSIVE JsonTagsFrom(_, _)
JsonTagsFrom(tags, k) ==
  IF k > Len(tags) THEN <<>>
  ELSE (IF k > 1 THEN <<",">> ELSE <<>>) \o <<"\"">> \o tags[k] \o <<"\"">>
         \o JsonTagsFrom(tags, k + 1)

JsonTags(tags) == <<"[">> \o JsonTagsFrom(tags, 1) \o <<"]">>

Digits == {"0", "1", "2", "3", "4", "5", "6", "7", "8", "9"}

\* The characters the FTS5 tokenizer keeps in a token (of those the texts use)
IsTokenChar(c) == IsLower(c) \/ IsUpper(c) \/ c \in Digits

\* The tokens FTS5 indexes for a text: its maximal runs of token characters,
\* with the case folded
RECURSIVE FtsTokensFrom(_, _, _)
FtsTokensFrom(s, i, cur) ==
  IF i > Len(s) THEN (IF cur = <<>> THEN {} ELSE {cur})
  ELSE IF IsTokenChar(s[i]) THEN FtsTokensFrom(s, i + 1, Append(cur, ToLowerChar(s[i])))
  ELSE (IF cur = <<>> THEN {} ELSE {cur}) \cup FtsTokensFrom(s, i + 1, <<>>)

FtsTokens(s) == FtsTokensFrom(s, 1, <<>>)

\* The id column of the row: mem-<n>
IdText(id) == <<"m", "e", "m", "-", ToString(id)>>

\* memories_fts MATCH ?: a query of bare words matches the rows whose id or text
\* holds every one of the words
FtsMatch(mem, id, query) ==
  FtsTokens(query) \subseteq (FtsTokens(mem[id].text) \cup FtsTokens(IdText(id)))

\* A query FTS5 parses: bare words separated by spaces
FtsParses(query) == \A i \in 1..Len(query) : IsTokenChar(query[i]) \/ IsSpace(query[i])

\* The conditions searchMemories pushes, in order; each has one placeholder
\* and one entry of queryParams
SqliteConditions(params) ==
  (IF IsGiven(params.tags) /\ Len(Val(params.tags)) > 0 THEN <<"tags">> ELSE <<>>)
    \o (IF IsGiven(params.category) /\ Val(params.category) # "" THEN <<"category">> ELSE <<>>)
    \o (IF IsGiven(params.dateFrom) THEN <<"dateFrom">> ELSE <<>>)
    \o (IF IsGiven(params.dateTo) THEN <<"dateTo">> ELSE <<>>)

\* One condition of the WHERE clause on one row: LIKE %tags[0]% on the JSON
\* text of the tags (LIKE ignores the case of ASCII letters), equality on the
\* category, comparisons on created_at
SqliteConditionHolds(mem, id, params, name) ==
  CASE name = "tags" ->
         includes(toLowerCase(JsonTags(mem[id].metadata.tags)), toLowerCase(Val(params.tags)[1]))
    [] name = "category" -> mem[id].metadata.category = params.category
    [] name = "dateFrom" -> mem[id].createdAt >= Val(params.dateFrom)
    [] name = "dateTo" -> mem[id].createdAt <= Val(params.dateTo)

\* The ORDER BY clause searchMemories appends ("" when it appends none)
SqliteOrderBy(params) ==
  IF params.sortBy \in {Some("date"), Some("access"), Some("priority")} THEN Val(params.sortBy)
  ELSE IF TruthyStr(params.query) THEN "rank"
  ELSE ""

\* The comparator of an ORDER BY clause (rows of equal key, and rows ordered
\* by rank or not ordered at all, come in rowid order)
SqliteCompare(a, b, params) ==
  LET key == SqliteOrderBy(params)
      comparison == CASE key = "date" -> a.createdAt - b.createdAt
                      [] key = "access" -> a.accessCount - b.accessCount
                      [] key = "priority" -> a.metadata.priority - b.metadata.priority
                      [] OTHER -> 0
  IN IF params.sortOrder = Some("asc") THEN comparison ELSE 0 - comparison

\* What the driver does when a statement is run with fewer parameters than it
\* has placeholders: it raises an error, or it leaves the placeholders NULL
UnboundOutcomes == {"throws", "null"}

\* SqliteDatabase.searchMemories on an open database. The count statement is
\* the row statement with its first "SELECT ... FROM" on one line replaced by
\* SELECT COUNT(*) and everything from ORDER BY to the end of the line dropped;
\* it is run with queryParams.slice(0, -2).
sqliteSearchMemories(mem, params, unbound) ==
  LET fts == TruthyStr(params.query) /\ trim(Val(params.query)) # <<>>
      conditions == SqliteConditions(params)
      orderBy == SqliteOrderBy(params)
      hasLimit == TruthyNum(params.limit)
      hasOffset == TruthyNum(params.offset)
      paging == (IF hasLimit THEN <<"limit">> ELSE <<>>)
                  \o (IF hasOffset THEN <<"offset">> ELSE <<>>)
      queryParams == (IF fts THEN <<"query">> ELSE <<>>) \o conditions \o paging
      \* statements SQLite rejects: a MATCH string that is no FTS5 query, a
      \* blank query (conditions joined by AND without WHERE, ORDER BY fts.rank
      \* without the join), OFFSET without LIMIT
      malformed ==
        \/ fts /\ ~FtsParses(trim(Val(params.query)))
        \/ TruthyStr(params.query) /\ ~fts /\ (conditions # <<>> \/ orderBy = "rank")
        \/ hasOffset /\ ~hasLimit
      rowHolds == [id \in DOMAIN mem |->
                     /\ fts => FtsMatch(mem, id, trim(Val(params.query)))
                     /\ \A i \in 1..Len(conditions) :
                          SqliteConditionHolds(mem, id, params, conditions[i])]
      rows == FilterSeq(MemoryIds(mem), rowHolds, 1)
      cmp == [x \in DOMAIN mem, y \in DOMAIN mem |-> SqliteCompare(mem[x], mem[y], params)]
      sorted == StableSort(rows, cmp)
      n == Len(sorted)
      \* LIMIT: a negative limit is no limit; OFFSET: a negative offset is 0
      offset == IF hasOffset THEN Min(Max(Val(params.offset), 0), n) ELSE 0
      page == IF ~hasLimit \/ Val(params.limit) < 0 THEN Slice(sorted, offset, n)
              ELSE Slice(sorted, offset, Min(offset + Val(params.limit), n))
      \* the count statement: the multi-line FTS statement keeps its SELECT
      \* list, and a statement without ORDER BY keeps LIMIT and OFFSET
      countPlaceholders == (IF fts THEN <<"query">> ELSE <<>>) \o conditions
                             \o (IF orderBy = "" THEN paging ELSE <<>>)
      countParams == SubSeq(queryParams, 1, Len(queryParams) - 2)
      unboundNames == SubSeq(countPlaceholders, Len(countParams) + 1, Len(countPlaceholders))
      countFails == unboundNames # <<>> /\ (unbound = "throws" \/ "limit" \in Range(unboundNames))
      \* countResult?.total || 0: the FTS statement's row has no `total`, and
      \* a condition compared with NULL holds for no row
      total == IF fts \/ unboundNames # <<>> THEN 0 ELSE n
  IN IF malformed \/ countFails THEN [status |-> "error"]
     ELSE [status |-> "ok",
           memories |-> page,
           total |-> total,
           hasMore |-> IF hasOffset THEN Val(params.offset) + Len(page) < total
                       ELSE Len(page) < total]

\* SqliteDatabase.getMemory at time t: the UPDATE sets access_count and
\* last_accessed_at of the row; the returned object is the row read before it with
\* these two fields as the UPDATE leaves them
sqliteGetMemory(mem, id, t) ==
  IF id \notin DOMAIN mem THEN [memories |-> mem, result |-> None]
  ELSE LET row == [mem[id] EXCEPT !.accessCount = mem[id].accessCount + 1,
                                  !.lastAccessedAt = t]
       IN [memories |-> MapSet(mem, id, row), result |-> Some(row)]

\* SqliteDatabase.updateMemory at time t: current is what this.getMemory(id)
\* returns; the UPDATE sets text, metadata, updated_at, access_count and
\* last_accessed_at of the row from { ...current, ...updates, updatedAt: new Date() }
sqliteUpdateMemory(mem, id, updates, t) ==
  LET got == sqliteGetMemory(mem, id, t)
  IN IF got.result = None THEN [memories |-> mem, result |-> None]
     ELSE LET current == Val(got.result)
              spread == [f \in DOMAIN current |->
                           IF f \in DOMAIN updates THEN updates[f] ELSE current[f]]
              updated == [spread EXCEPT !.updatedAt = t]
              row == [current EXCEPT !.text = updated.text,
                                     !.metadata = updated.metadata,
                                     !.updatedAt = updated.updatedAt,
                                     !.accessCount = updated.accessCount,
                                     !.lastAccessedAt = updated.lastAccessedAt]
          IN [memories |-> MapSet(got.memories, id, row), result |-> Some(updated)]

\* The sets of rows `SELECT id FROM memories ORDER BY created_at ASC LIMIT k` can
\* give, k being MAX(0, COUNT(*) - maxMemories): the k rows created first, in
\* any order the engine puts rows of the same created_at
SqlOldestRows(mem, maxMemories) ==
  LET k == Max(0, Cardinality(DOMAIN mem) - maxMemories)
  IN {rows \in SUBSET (DOMAIN mem) :
        /\ Cardinality(rows) = Min(k, Cardinality(DOMAIN mem))
        /\ \A x \in rows, y \in (DOMAIN mem) \ rows : mem[x].createdAt <= mem[y].createdAt}

\* SqliteDatabase.cleanup, the subquery giving these rows: the table afterwards
\* and result.changes
sqliteCleanup(mem, maxMemories, rows) ==
  IF ~TruthyNum(maxMemories) THEN [memories |-> mem, removed |-> 0]
  ELSE [memories |-> MapDelete(mem, rows), removed |-> Cardinality(rows)]

\* PgVectorDatabase.cleanup, the subquery giving these rows: the table afterwards
\* and result.rowCount || 0
pgvectorCleanup(mem, maxMemories, rows) ==
  IF ~TruthyNum(maxMemories) THEN [memories |-> mem, removed |-> 0]
  ELSE [memories |-> MapDelete(mem, rows),
        removed |-> IF Cardinality(rows) # 0 THEN Cardinality(rows) ELSE 0]

\* ------------------------------------------------------ reorganizer service

Min3(a, b, c) == Min(a, Min(b, c))

\* One row of levenshteinDistance's matrix: row j from row j - 1, filled left to right.
\* A row is indexed 1..Len(str1)+1 (column i of the code is index i + 1).
RECURSIVE LevRow(_, _, _, _, _)
LevRow(str1, c2, prev, row, i) ==
  IF i > Len(str1) THEN row
  ELSE LET indicator == IF str1[i] = c2 THEN 0 ELSE 1
           cell == Min3(row[i] + 1, prev[i + 1] + 1, prev[i] + indicator)
       IN LevRow(str1, c2, prev, Append(row, cell), i + 1)

RECURSIVE LevRows(_, _, _, _)
LevRows(str1, str2, prev, j) ==
  IF j > Len(str2) THEN prev
  ELSE LevRows(str1, str2, LevRow(str1, str2[j], prev, <<j>>, 1), j + 1)

\* ReorganizerService.levenshteinDistance
levenshteinDistance(str1, str2) ==
  LevRows(str1, str2, [i \in 1..(Len(str1) + 1) |-> i - 1], 1)[Len(str1) + 1]

\* ReorganizerService.areTagsSimilar; 1 - distance/maxLength > 0.8 is
\* 5 * distance < maxLength (maxLength > 0 here: the tags differ)
areTagsSimilar(tag1, tag2) ==
  LET t1 == toLowerCase(tag1)
      t2 == toLowerCase(tag2)
  IN \/ t1 = t2
     \/ includes(t1, t2)
     \/ includes(t2, t1)
     \/ 5 * levenshteinDistance(t1, t2) < Max(Len(t1), Len(t2))

\* The inner loop absorbing a tag similar to the member the group took last
RECURSIVE AbsorbSimilarToLast(_, _, _, _)
AbsorbSimilarToLast(tags, tag, k, st) ==
  IF k > Len(tags) THEN st
  ELSE IF tags[k] \notin st.processed /\ areTagsSimilar(st.group[Len(st.group)], tags[k])
       THEN AbsorbSimilarToLast(tags, tag, k + 1,
                                [group |-> Append(st.group, tags[k]),
                                 processed |-> st.processed \cup {tags[k]}])
       ELSE AbsorbSimilarToLast(tags, tag, k + 1, st)

\* The inner loop of groupSimilarTags: st = [group, processed]
RECURSIVE AbsorbSimilar(_, _, _, _)
AbsorbSimilar(tags, tag, k, st) ==
  IF k > Len(tags) THEN st
  ELSE IF tags[k] \notin st.processed /\ areTagsSimilar(tag, tags[k])
       THEN AbsorbSimilar(tags, tag, k + 1,
                          [group |-> Append(st.group, tags[k]),
                           processed |-> st.processed \cup {tags[k]}])
       ELSE AbsorbSimilar(tags, tag, k + 1, st)

\* The outer loop of groupSimilarTags
RECURSIVE GroupFrom(_, _, _, _)
GroupFrom(tags, k, groups, processed) ==
  IF k > Len(tags) THEN groups
  ELSE IF tags[k] \in processed THEN GroupFrom(tags, k + 1, groups, processed)
  ELSE LET st == AbsorbSimilar(tags, tags[k], 1,
                               [group |-> <<tags[k]>>, processed |-> processed \cup {tags[k]}])
       IN GroupFrom(tags, k + 1, Append(groups, st.group), st.processed)

\* ReorganizerService.groupSimilarTags
groupSimilarTags(tags) == GroupFrom(tags, 1, <<>>, {})

IsSpecial(c) == c \in {"-", "_"}

\* (a.match(/[-_]/g) || []).length
SpecialCount(tag) == Cardinality({i \in 1..Len(tag) : IsSpecial(tag[i])})

\* a.replace(/[-_]/g, "").length
CleanLength(tag) == Len(tag) - SpecialCount(tag)

\* The comparator without its second criterion
PrimaryCompareCleanOnly(a, b) == CleanLength(a) - CleanLength(b)

\* The comparator of selectPrimaryTag's sort
PrimaryCompare(a, b) ==
  IF CleanLength(a) # CleanLength(b) THEN CleanLength(a) - CleanLength(b)
  ELSE SpecialCount(a) - SpecialCount(b)

\* ReorganizerService.selectPrimaryTag
selectPrimaryTag(tags) ==
  StableSort(tags, [a \in Range(tags), b \in Range(tags) |-> PrimaryCompare(a, b)])[1]

\* The groups mergeSimilarTags goes on to merge (it skips those of length <= 1)
MergeableGroups(tags) ==
  LET groups == groupSimilarTags(tags)
  IN {groups[i] : i \in {k \in 1..Len(groups) : Len(groups[k]) > 1}}

\* ReorganizerService.mergeSimilarTags on the tags db.getAllTags() returned: the
\* loop over the groups only logs (the rewrite of the records is a TODO), so the
\* store is left as it is, and mergedCount is a constant 0.
mergeSimilarTags(mem) ==
  LET allTags == getAllTags(mem)
      mergedCount == 0
      tagGroups == groupSimilarTags(allTags)
  IN [memories |-> mem, merged |-> mergedCount]

\* 30 * 24 * 60 * 60 * 1000 ms in the unit of the model's clock
ThirtyDays == 1

\* ReorganizerService.getReorganizationStats at time t
getReorganizationStats(mem, t) ==
  LET stats == getStats(mem)
      allTags == getAllTags(mem)
      tagGroups == groupSimilarTags(allTags)
      potentialMerges == Cardinality({i \in DOMAIN tagGroups : Len(tagGroups[i]) > 1})
      searchResult == searchMemories(mem, [query |-> None, tags |-> None, category |-> None,
                                           dateFrom |-> None, dateTo |-> Some(t - ThirtyDays),
                                           sortBy |-> None, sortOrder |-> None,
                                           limit |-> Some(1000), offset |-> None])
      oldMemories == Cardinality({k \in DOMAIN searchResult.memories :
                                    mem[searchResult.memories[k]].accessCount < 5})
  IN [totalTags |-> stats.totalTags,
      totalMemories |-> stats.totalMemories,
      potentialMerges |-> potentialMerges,
      oldMemories |-> oldMemories]

\* The cap cleanupOldMemories resolves: `if (!maxMemories) maxMemories = 1000`
effectiveCap(maxMemories) == IF TruthyNum(maxMemories) THEN maxMemories ELSE Some(1000)

\* The error a Storage Port call rejects with when the backend fails
\* (`throw new Error("Database not initialized")` in the SQLite and pgvector ports)
DbError == "Database not initialized"

\* ReorganizerService.cleanupOldMemories; fault names the port call that rejects
cleanupOldMemories(mem, maxMemories, fault) ==
  IF fault = "getStats" THEN [memories |-> mem, removed |-> 0, threw |-> TRUE, cap |-> None]
  ELSE LET cap == effectiveCap(maxMemories)
       IN IF totalMemories(mem) <= Val(cap)
          THEN [memories |-> mem, removed |-> 0, threw |-> FALSE, cap |-> cap]
          ELSE IF fault = "cleanup"
               THEN [memories |-> mem, removed |-> 0, threw |-> TRUE, cap |-> cap]
               ELSE LET c == cleanup(mem, cap)
                    IN [memories |-> c.memories, removed |-> c.removed, threw |-> FALSE,
                        cap |-> cap]

\* The sub-operations of reorganize in the order the code attempts them
SubOperations == <<"mergeSimilarTags", "cleanupOldMemories", "optimizeStorage">>

\* The flag test `params.<flag> !== undefined`: a flag given as false counts
FlagGiven(params, name) ==
  CASE name = "mergeSimilarTags" -> IsGiven(params.mergeSimilarTags)
    [] name = "cleanupOldMemories" -> IsGiven(params.cleanupOldMemories)
    [] name = "optimizeStorage" -> IsGiven(params.optimizeStorage)

\* Whether reorganize's `if (params.<flag>)` takes the branch
FlagSet(params, name) ==
  CASE name = "mergeSimilarTags" -> params.mergeSimilarTags = Some(TRUE)
    [] name = "cleanupOldMemories" -> params.cleanupOldMemories = Some(TRUE)
    [] name = "optimizeStorage" -> params.optimizeStorage = Some(TRUE)

\* reorganize with each sub-operation in a try/catch of its own: a failure is
\* recorded and the next sub-operation runs all the same
reorganizeStepCarryOn(st, name, params, fault) ==
  IF ~FlagSet(params, name) THEN st
  ELSE LET st1 == [st EXCEPT !.attempted = Append(st.attempted, name)]
       IN CASE name = "mergeSimilarTags" ->
                 IF fault = "getAllTags" THEN [st1 EXCEPT !.threw = TRUE]
                 ELSE LET m == mergeSimilarTags(st.memories)
                      IN [st1 EXCEPT !.memories = m.memories, !.tagsMerged = m.merged,
                                     !.completed = Append(st.completed, name)]
            [] name = "cleanupOldMemories" ->
                 LET c == cleanupOldMemories(st.memories, params.maxMemories, fault)
                 IN IF c.threw THEN [st1 EXCEPT !.threw = TRUE, !.cap = c.cap]
                    ELSE [st1 EXCEPT !.memories = c.memories, !.memoriesCleaned = c.removed,
                                     !.cap = c.cap, !.completed = Append(st.completed, name)]
            [] name = "optimizeStorage" ->
                 [st1 EXCEPT !.storageOptimized = TRUE, !.completed = Append(st.completed, name)]

\* One `if (params.<flag>) { ... }` of reorganize: st = [memories, tagsMerged,
\* memoriesCleaned, storageOptimized, attempted, completed, threw, cap]
reorganizeStep(st, name, params, fault) ==
  IF st.threw \/ ~FlagSet(params, name) THEN st
  ELSE LET st1 == [st EXCEPT !.attempted = Append(st.attempted, name)]
       IN CASE name = "mergeSimilarTags" ->
                 IF fault = "getAllTags" THEN [st1 EXCEPT !.threw = TRUE]
                 ELSE LET m == mergeSimilarTags(st.memories)
                      IN [st1 EXCEPT !.memories = m.memories, !.tagsMerged = m.merged,
                                     !.completed = Append(st.completed, name)]
            [] name = "cleanupOldMemories" ->
                 LET c == cleanupOldMemories(st.memories, params.maxMemories, fault)
                 IN IF c.threw THEN [st1 EXCEPT !.threw = TRUE, !.cap = c.cap]
                    ELSE [st1 EXCEPT !.memories = c.memories, !.memoriesCleaned = c.removed,
                                     !.cap = c.cap, !.completed = Append(st.completed, name)]
            [] name = "optimizeStorage" ->
                 [st1 EXCEPT !.storageOptimized = TRUE, !.completed = Append(st.completed, name)]

RECURSIVE reorganizeSteps(_, _, _, _, _)
reorganizeSteps(st, order, k, params, fault) ==
  IF k > Len(order) THEN st
  ELSE reorganizeSteps(reorganizeStep(st, order[k], params, fault), order, k + 1, params, fault)

\* ReorganizerService.reorganize: the store afterwards, the ReorganizeResult, and
\* what was observed on the way (the sub-operations attempted and completed, the cap)
reorganize(mem, params, fault) ==
  LET st == reorganizeSteps([memories |-> mem, tagsMerged |-> 0, memoriesCleaned |-> 0,
                             storageOptimized |-> FALSE, attempted |-> <<>>,
                             completed |-> <<>>, threw |-> FALSE, cap |-> None],
                            SubOperations, 1, params, fault)
  IN [memories |-> st.memories,
      result |-> [status |-> IF st.threw THEN "error" ELSE "ok",
                  tagsMerged |-> st.tagsMerged,
                  memoriesCleaned |-> st.memoriesCleaned,
                  storageOptimized |-> st.storageOptimized,
                  error |-> IF st.threw THEN Some(DbError) ELSE None],
      attempted |-> st.attempted,
      completed |-> st.completed,
      cap |-> st.cap]

\* ---------------------------------------------------------- memory service

\* The loop that goes on with the next chunk after a storeMemory call failed
RECURSIVE storeChunksCarryOn(_, _, _, _, _, _)
storeChunksCarryOn(chunks, k, metadata, times, failAt, st) ==
  IF k > Len(chunks) THEN st
  ELSE IF k = failAt
       THEN storeChunksCarryOn(chunks, k + 1, metadata, times, failAt, [st EXCEPT !.threw = TRUE])
  ELSE LET r == storeMemory(st.db, [text |-> chunks[k], metadata |-> metadata[k]], times[k])
       IN storeChunksCarryOn(chunks, k + 1, metadata, times, failAt,
                             [st EXCEPT !.db = r.db, !.memoryIds = Append(st.memoryIds, r.memory.id)])

\* The loop of MemoryService.memorize from chunk k on: st = [db, memoryIds, threw];
\* metadata[i] is detectMetadata(chunks[i], params); chunk i is stored at time
\* times[i]; the store call of chunk failAt rejects (0: none does)
RECURSIVE storeChunks(_, _, _, _, _, _)
storeChunks(chunks, k, metadata, times, failAt, st) ==
  IF k > Len(chunks) THEN st
  ELSE IF k = failAt THEN [st EXCEPT !.threw = TRUE]
  ELSE LET r == storeMemory(st.db, [text |-> chunks[k], metadata |-> metadata[k]], times[k])
       IN storeChunks(chunks, k + 1, metadata, times, failAt,
                      [st EXCEPT !.db = r.db, !.memoryIds = Append(st.memoryIds, r.memory.id)])

\* memorize without the check of the text: it goes on to store the chunks
memorizeUnvalidated(db, params, chunks, metadata, times, failAt) ==
  LET st == storeChunks(chunks, 1, metadata, times, failAt,
                        [db |-> db, memoryIds |-> <<>>, threw |-> FALSE])
  IN IF st.threw
     THEN [db |-> st.db, status |-> "error", error |-> Some(DbError),
           memoryIds |-> <<>>, chunksCreated |-> 0]
     ELSE [db |-> st.db, status |-> "ok", error |-> None,
           memoryIds |-> st.memoryIds, chunksCreated |-> Len(chunks)]

\* MemoryService.memorize, given what splitTextIntoChunks(params.text) and
\* detectMetadata return: the store afterwards and the result (or the error thrown)
memorize(db, params, chunks, metadata, times, failAt) ==
  IF trim(params.text) = <<>>
  THEN [db |-> db, status |-> "error", error |-> Some("Text cannot be empty"),
        memoryIds |-> <<>>, chunksCreated |-> 0]
  ELSE LET st == storeChunks(chunks, 1, metadata, times, failAt,
                             [db |-> db, memoryIds |-> <<>>, threw |-> FALSE])
       IN IF st.threw
          THEN [db |-> st.db, status |-> "error", error |-> Some(DbError),
                memoryIds |-> <<>>, chunksCreated |-> 0]
          ELSE [db |-> st.db, status |-> "ok", error |-> None,
                memoryIds |-> st.memoryIds, chunksCreated |-> Len(chunks)]

\* ------------------------------------------------------ MCP front end

\* The priority passed on as it came
ClampPriorityNot(priority) == priority

\* Math.max(1, Math.min(10, params.priority))
ClampPriority(priority) == Max(1, Min(10, priority))

\* parseMemorizeParams: the request of the memorize tool made into MemorizeParams
\* (the categories of the model carry no surrounding whitespace to trim)
parseMemorizeParams(raw) ==
  IF ~IsGiven(raw.text) \/ trim(Val(raw.text)) = <<>>
  THEN [status |-> "error",
        error |-> "Text parameter is required and must be a non-empty string"]
  ELSE [status |-> "ok",
        params |->
          [text |-> trim(Val(raw.text)),
           tags |-> raw.tags,
           context |-> IF IsGiven(raw.context) THEN Some(trim(Val(raw.context))) ELSE None,
           source |-> IF IsGiven(raw.source) THEN Some(trim(Val(raw.source))) ELSE None,
           priority |-> IF IsGiven(raw.priority) THEN Some(ClampPriority(Val(raw.priority)))
                        ELSE None,
           category |-> raw.category]]

\* ------------------------------------------------------------ MCP dispatcher

\* JSON values by their typeof: a string, and a value that is not one
Str(s) == [type |-> "string", value |-> s]

Num(s) == [type |-> "number", value |-> s]

\* A JSON object: its own keys and their values
Obj(fields) == [type |-> "object", value |-> fields]

IsString(o) == IsGiven(o) /\ Val(o).type = "string"

IsObject(o) == IsGiven(o) /\ Val(o).type = "object"

\* A request body that is an object, with the fields it has; and one that is not
McpRequest(id, tool, params) == [json |-> "object", id |-> id, tool |-> tool, params |-> params]

NullRequest == [json |-> "null"]

\* MCPRequestSchema.parse: id and tool are strings, params is a record
validateMCPRequest(request) ==
  /\ request.json = "object"
  /\ IsString(request.id)
  /\ IsString(request.tool)
  /\ IsObject(request.params)

\* createErrorResponse and createSuccessResponse
createErrorResponse(id, code, message) ==
  [id |-> id, result |-> None, error |-> Some([code |-> code, message |-> message])]

createSuccessResponse(id, result) == [id |-> id, result |-> Some(result), error |-> None]

\* The own keys of the registry the dispatcher is constructed with; the requests
\* of the model call get_memory and get_categories of the server's seven tools
tools == {"get_memory", "get_categories"}

\* Properties an object literal inherits from Object.prototype
ObjectPrototype == {"constructor", "toString", "valueOf", "hasOwnProperty", "__proto__"}

\* The key of #memories a string is: n for mem-<n>, 0 (never a key) otherwise
IdOf(s) ==
  IF \E n \in 1..(MaxId + 1) : IdText(n) = s
  THEN CHOOSE n \in 1..(MaxId + 1) : IdText(n) = s
  ELSE 0

\* A tool handler's outcome: what it returns or the error it throws (domain says
\* whether the error is a DomainError, which carries a code), the store it
\* leaves and the id it fetched a record under
Returned(mem, result, fetched) ==
  [memories |-> mem, threw |-> FALSE, result |-> result, fetched |-> fetched]

Threw(mem, domain, code, message) ==
  [memories |-> mem, threw |-> TRUE, domain |-> domain, code |-> code,
   message |-> message, fetched |-> None]

\* createGetMemoryTool's handler: ValidationError and NotFoundError of
\* api/mcp/types.ts extend Error, not DomainError
getMemoryTool(mem, params, t) ==
  IF ~("id" \in DOMAIN params /\ params.id.type = "string" /\ trim(params.id.value) # <<>>)
  THEN Threw(mem, FALSE, "", "Memory ID is required and must be a non-empty string")
  ELSE LET memoryId == IdOf(trim(params.id.value))
           r == getMemory(mem, memoryId, t)
       IN IF r.result = None
          THEN Threw(mem, FALSE, "", "Memory not found")
          ELSE Returned(r.memories, [memory |-> Val(r.result)], Some(memoryId))

\* createGetCategoriesTool's handler
getCategoriesTool(mem, params) ==
  IF DOMAIN params # {}
  THEN Threw(mem, FALSE, "", "Get categories tool does not accept any parameters")
  ELSE Returned(mem, [categories |-> getAllCategories(mem)], None)

\* this.tools[tool](params): the registry's handler, or what the call of an
\* inherited property does (Object returns its argument, Object.prototype.toString
\* returns a string, the others throw a TypeError)
callTool(mem, tool, params, t) ==
  CASE tool = "get_memory" -> getMemoryTool(mem, params, t)
    [] tool = "get_categories" -> getCategoriesTool(mem, params)
    [] tool = "constructor" -> Returned(mem, params, None)
    [] tool = "toString" -> Returned(mem, "[object Undefined]", None)
    [] OTHER -> Threw(mem, FALSE, "", "TypeError")

\* MCPDispatcher.processRequest at time t: the response, the store it leaves,
\* the registered handler it ran (None: none) and the id fetched
processRequest(mem, request, t) ==
  LET requestId == IF request.json = "object" /\ IsGiven(request.id)
                   THEN Val(request.id) ELSE Str("unknown")
  IN IF ~validateMCPRequest(request)
     THEN [memories |-> mem, ran |-> None, fetched |-> None,
           response |-> createErrorResponse(requestId, "VALIDATION_ERROR",
                                            "Invalid MCP request format")]
     ELSE LET tool == Val(request.tool).value
          IN IF tool \notin tools \cup ObjectPrototype
             THEN [memories |-> mem, ran |-> None, fetched |-> None,
                   response |-> createErrorResponse(Val(request.id), "UNKNOWN_TOOL",
                                                    "Unknown tool")]
             ELSE LET r == callTool(mem, tool, Val(request.params).value, t)
                      ran == IF tool \in tools THEN Some(tool) ELSE None
                  IN IF r.threw
                     THEN [memories |-> r.memories, ran |-> ran, fetched |-> r.fetched,
                           response |->
                             IF r.domain
                             THEN createErrorResponse(requestId, r.code, r.message)
                             ELSE createErrorResponse(requestId, "INTERNAL_ERROR",
                                                      "Internal server error")]
                     ELSE [memories |-> r.memories, ran |-> ran, fetched |-> r.fetched,
                           response |-> createSuccessResponse(Val(request.id), r.result)]

\* -------------------------------------------------------------- HTTP server

\* config.authToken
authToken == <<"t", "k">>

\* "Bearer "
BearerPrefix == <<"B", "e", "a", "r", "e", "r", " ">>

\* validateAuthToken passing every header that starts with "Bearer "
validateAuthTokenAnyBearer(authHeader, expectedToken) ==
  IF ~TruthyStr(authHeader) THEN Some("Missing Authorization header")
  ELSE IF ~StartsAt(Val(authHeader), BearerPrefix, 0)
       THEN Some("Invalid Authorization header format")
  ELSE None

\* validateAuthToken: the message of the AuthenticationError it throws (None: it
\* returns)
validateAuthToken(authHeader, expectedToken) ==
  IF ~TruthyStr(authHeader) THEN Some("Missing Authorization header")
  ELSE IF ~StartsAt(Val(authHeader), BearerPrefix, 0)
       THEN Some("Invalid Authorization header format")
  ELSE IF Slice(Val(authHeader), 7, Len(Val(authHeader))) # expectedToken
       THEN Some("Invalid authentication token")
  ELSE None

\* A request body: text JSON.parse rejects, or the text of a JSON value
MalformedBody == [parses |-> FALSE]

JsonBody(value) == [parses |-> TRUE, value |-> value]

\* The error response handleRequest's catch builds, sent with status 400
HttpErrorResponse(code, message) ==
  [status |-> 400, body |-> createErrorResponse(Str("error"), code, message)]

\* handleRequest at time t: the HTTP response, the store it leaves, whether the
\* body was read and the dispatcher called, and what the dispatcher ran
handleRequest(mem, authHeader, body, t) ==
  LET denied == validateAuthToken(authHeader, authToken)
      quiet == [memories |-> mem, dispatched |-> FALSE, ran |-> None, fetched |-> None]
  IN IF IsGiven(denied)
     THEN quiet @@ [bodyRead |-> FALSE,
                    http |-> HttpErrorResponse("AUTHENTICATION_ERROR", Val(denied))]
     ELSE IF ~body.parses
     THEN quiet @@ [bodyRead |-> TRUE,
                    http |-> HttpErrorResponse("VALIDATION_ERROR", "Invalid JSON in request body")]
     ELSE LET r == processRequest(mem, body.value, t)
          IN [memories |-> r.memories, dispatched |-> TRUE, ran |-> r.ran,
              fetched |-> r.fetched, bodyRead |-> TRUE,
              http |-> [status |-> 200, body |-> r.response]]

\* ------------------------------------------------------------------ inputs

\* "Bug in API. Fixed it.": longer than chunkSize, two sentences, two chunks
TextBug == <<"B", "u", "g", " ", "i", "n", " ", "A", "P", "I", ".", " ", "F", "i", "x", "e", "d", " ", "i", "t", ".">>

\* "api up"
TextApi == <<"a", "p", "i", " ", "u", "p">>

\* "srv": one chunk
TextSrv == <<"s", "r", "v">>

\* "  ": whitespace only
TextBlank == <<" ", " ">>

TextEmpty == <<>>

TagApi == <<"a", "p", "i">>

TagApiUpper == <<"A", "P", "I">>

TagApiServer == <<"a", "p", "i", "-", "s", "e", "r", "v", "e", "r">>

MemorizeParams(text, tags, context, priority, category) ==
  [text |-> text, tags |-> tags, context |-> context, source |-> None,
   priority |-> priority, category |-> category]

\* The memorize requests the callers make
MemorizeInputs ==
  { MemorizeParams(TextBug, None, None, None, None),
    MemorizeParams(TextSrv, Some(<<TagApiServer>>), Some(TextApi), Some(8), Some("ops")),
    MemorizeParams(TextBlank, Some(<<TagApiUpper>>), None, None, None) }

\* The memorize requests without a text: "" and whitespace only
BlankInputs ==
  { MemorizeParams(TextEmpty, None, None, None, None),
    MemorizeParams(TextBlank, None, Some(TextApi), Some(8), None) }

\* Texts with keywords of the category groups: "sql test", "docker api", "unit",
\* "deploy"
TextSqlTest == <<"s", "q", "l", " ", "t", "e", "s", "t">>

TextDockerApi == <<"d", "o", "c", "k", "e", "r", " ", "a", "p", "i">>

TextUnit == <<"u", "n", "i", "t">>

TextDeploy == <<"d", "e", "p", "l", "o", "y">>

\* The memorize requests with no category, with one, and with an empty one
CategoryInputs ==
  { MemorizeParams(t, None, None, None, c) :
      t \in {TextBug, TextApi, TextSrv, TextSqlTest, TextDockerApi, TextUnit, TextDeploy},
      c \in {None, Some("ops"), Some("")} }

\* Memorize requests of short texts, one with no category and one with a category
ReadsInputs ==
  { MemorizeParams(TextApi, None, None, None, None),
    MemorizeParams(TextSrv, None, None, None, Some("ops")) }

\* "srv" as a tool request carries it, with whitespace around it
TextSrvPadded == <<" ">> \o TextSrv \o <<" ">>

\* The params of the memorize tool's requests: a text or a blank text, and a
\* priority of any size or none
McpMemorizeInputs ==
  { [text |-> Some(t), tags |-> None, context |-> None, source |-> None,
     priority |-> p, category |-> None] :
      t \in {TextSrvPadded, TextBlank},
      p \in {None, Some(-3), Some(0), Some(1), Some(8), Some(10), Some(11)} }

\* The MemorizeParams the front end passes to the service
McpParsedInputs ==
  {parseMemorizeParams(raw).params :
     raw \in {x \in McpMemorizeInputs : parseMemorizeParams(x).status = "ok"}}

\* What the chunker and the metadata detector compute for each request, computed
\* once: they are pure functions of the request
InputChunks ==
  [p \in MemorizeInputs \cup BlankInputs \cup McpParsedInputs \cup CategoryInputs |-> splitTextIntoChunks(p.text)] @@ <<>>

InputMetadata ==
  [p \in MemorizeInputs \cup BlankInputs \cup McpParsedInputs \cup CategoryInputs |->
     [k \in 1..Len(InputChunks[p]) |-> detectMetadata(InputChunks[p][k], p)] @@ <<>>] @@ <<>>

FlagValues == {Some(FALSE), Some(TRUE)}

\* The reorganize requests: every combination of the three flags without a
\* maxMemories; cleanup, alone or with both other sub-operations, with a
\* maxMemories of 0 or a small cap; and the request that gives nothing at all
ReorganizeInputs ==
  { [mergeSimilarTags |-> m, cleanupOldMemories |-> c, optimizeStorage |-> o,
     maxMemories |-> None] : m \in FlagValues, c \in FlagValues, o \in FlagValues }
  \cup { [mergeSimilarTags |-> f, cleanupOldMemories |-> Some(TRUE), optimizeStorage |-> f,
          maxMemories |-> x] : f \in FlagValues, x \in {Some(0), Some(1), Some(2)} }
  \cup { [mergeSimilarTags |-> None, cleanupOldMemories |-> None, optimizeStorage |-> None,
          maxMemories |-> None] }

\* The port call that rejects during a request ("none": the backend works)
Faults == {"none", "getAllTags", "getStats", "cleanup"}

SearchParams(tags, limit, offset) ==
  [query |-> None, tags |-> tags, category |-> None, dateFrom |-> None, dateTo |-> None,
   sortBy |-> None, sortOrder |-> None, limit |-> limit, offset |-> offset]

\* The searchMemories requests: the CLI passes Number(flags.limit) and
\* Number(flags.offset) as they are, so a limit or an offset can be any number
SearchInputs ==
  { SearchParams(tg, l, o) :
      tg \in {None, Some(<<TagApi>>)},
      l \in {None, Some(-1), Some(0), Some(1), Some(2)},
      o \in {None, Some(-1), Some(1)} }

\* The free-text query of the search requests
QueryApi == <<"A", "P", "I">>

\* The searchMemories requests that combine the five filters, and one whose
\* query, tags and category are empty
FilterInputs ==
  { [SearchParams(tg, None, None) EXCEPT !.query = q, !.category = c,
                                          !.dateFrom = df, !.dateTo = dt] :
      q \in {None, Some(QueryApi)},
      tg \in {None, Some(<<TagApi>>)},
      c \in {None, Some("ops")},
      df \in {None, Some(1)},
      dt \in {None, Some(0)} }
    \cup { [SearchParams(Some(<<>>), None, None) EXCEPT !.query = Some(<<>>),
                                                        !.category = Some("")] }

\* The searchMemories requests that choose a sort key, a direction and a page
\* (the CLI passes any number as limit and offset)
SortInputs ==
  { [SearchParams(None, pg[1], pg[2]) EXCEPT !.sortBy = sb, !.sortOrder = so] :
      sb \in {None, Some("date"), Some("access"), Some("priority"), Some("relevance")},
      so \in {None, Some("asc"), Some("desc")},
      pg \in {<<None, None>>, <<Some(1), None>>, <<Some(1), Some(1)>>, <<Some(2), Some(0)>>,
              <<Some(-1), None>>, <<None, Some(-1)>>} }

\* The updates passed to updateMemory: none, a text, an access count ("e.g.,
\* increment access count", says the port)
UpdateInputs == {<<>>, [text |-> TextApi], [accessCount |-> 0], [accessCount |-> 1]}

\* The patches passed to updateMemory: none, a text, and patches that name the
\* id and createdAt fields of Partial<MemoryChunk>
PatchInputs == {<<>>, [text |-> TextApi], [id |-> 2], [createdAt |-> 0]}

\* The caps passed to cleanup: none, 0, and caps below, at and above the number
\* of records a store can hold
CleanupInputs == {None} \cup {Some(n) : n \in 0..(MaxId + 1)}

\* The characters of the texts given to the chunker: a letter, a sentence end,
\* a space and a newline
TextChars == {"a", ".", " ", "\n"}

\* The texts given to the chunker
ChunkerTexts == UNION {[1..n -> TextChars] : n \in 0..MaxTextLen}

\* The requests made of SqliteDatabase.searchMemories
SqliteSearchInputs ==
  { [SearchParams(tg, l, o) EXCEPT !.query = q, !.sortBy = s] :
      q \in {None, Some(QueryApi)},
      tg \in {None, Some(<<TagApi>>)},
      s \in {None, Some("date")},
      l \in {None, Some(1)},
      o \in {None, Some(1)} }

\* The params objects of the tool requests: none, the id of a record with and
\* without whitespace around it, an id no record has, a blank id, an id that is
\* not a string
ToolParams ==
  { <<>>,
    [id |-> Str(IdText(1))],
    [id |-> Str(<<" ">> \o IdText(2) \o <<" ">>)],
    [id |-> Str(<<"n", "o", "p", "e">>)],
    [id |-> Str(<<" ", " ">>)],
    [id |-> Str(<<>>)],
    [id |-> Num(<<"1">>)] }

\* The names the requests give as tool: the registered ones, one nothing answers
\* to, and names of inherited properties
ToolNames == tools \cup {"unknown_tool"} \cup ObjectPrototype

\* Well-formed requests, and requests with id, tool or params missing or of the
\* wrong type
ValidRequests ==
  { McpRequest(Some(Str("r1")), Some(Str(tool)), Some(Obj(params))) :
      tool \in ToolNames, params \in ToolParams }

InvalidRequests ==
  { r \in { McpRequest(id, tool, params) :
              id \in {None, Some(Str("r1")), Some(Num("7"))},
              tool \in {None, Some(Str("get_memory")), Some(Num("7"))},
              params \in {None, Some(Obj([id |-> Str(IdText(1))])), Some(Str("x"))} } :
      ~validateMCPRequest(r) } \cup {NullRequest}

DispatcherRequests == ValidRequests \cup InvalidRequests

\* The values of the Authorization header of the requests: none, empty, the
\* configured token as a Bearer credential, and headers that differ from it
AuthHeaders ==
  { None, Some(<<>>), Some(BearerPrefix \o authToken),
    Some(BearerPrefix \o <<"t", "x">>), Some(BearerPrefix \o <<"t">>), Some(BearerPrefix \o <<"t", "k", "x">>),
    Some(BearerPrefix), Some(BearerPrefix \o <<" ">> \o authToken),
    Some(<<"b", "e", "a", "r", "e", "r", " ">> \o authToken), Some(<<"B", "a", "s", "i", "c", " ">> \o authToken), Some(authToken) }

\* The bodies of the requests: malformed JSON, get_memory and get_categories
\* requests, a request for a tool nothing answers to, a request with no tool
HttpBodies ==
  { MalformedBody } \cup
  { JsonBody(McpRequest(Some(Str("r1")), Some(Str("get_memory")), Some(Obj(params)))) :
      params \in {[id |-> Str(IdText(1))], [id |-> Str(<<"n", "o", "p", "e">>)], <<>>} } \cup
  { JsonBody(McpRequest(Some(Str("r1")), Some(Str("get_categories")), Some(Obj(<<>>)))),
    JsonBody(McpRequest(Some(Str("r1")), Some(Str("unknown_tool")), Some(Obj(<<>>)))),
    JsonBody(McpRequest(Some(Str("r1")), None, None)) }

\* Tags that are similar to some of the others and not to all: "api", "api_",
\* "-api" (one includes the other), "rest", "rest-a", "rest_a" (the last two are
\* one edit apart)
TagVocabulary == {<<"a", "p", "i">>, <<"a", "p", "i", "_">>, <<"-", "a", "p", "i">>, <<"r", "e", "s", "t">>, <<"r", "e", "s", "t", "-", "a">>, <<"r", "e", "s", "t", "_", "a">>}

\* The lists of tags given to groupSimilarTags
TagLists == UNION {[1..n -> TagVocabulary] : n \in 0..MaxTags}

\* The callers whose getMemory calls can be in flight at the same time
Callers == {"c1", "c2"}

\* ----------------------------------------------------------------- actions

\* No operation has just completed
Idle == [op |-> "none"]

Init ==
  /\ memories = <<>>
  /\ nextId = 1
  /\ now = 0
  /\ reads = <<>>
  /\ pending = [c \in Callers |-> None]
  /\ issued = {}
  /\ lastOp = Idle

\* The result of the last operation has been observed; the next one can be called
Continue ==
  /\ lastOp # Idle
  /\ lastOp' = Idle
  /\ UNCHANGED <<memories, nextId, now, reads, pending, issued>>

\* MemoryDatabase.initialize
Initialize ==
  /\ lastOp = Idle
  /\ memories' = <<>>
  /\ nextId' = 1
  /\ reads' = <<>>
  /\ lastOp' = [op |-> "initialize"]
  /\ UNCHANGED <<now, pending, issued>>

\* MemoryDatabase.close
Close ==
  /\ lastOp = Idle
  /\ memories' = <<>>
  /\ reads' = <<>>
  /\ lastOp' = [op |-> "close"]
  /\ UNCHANGED <<nextId, now, pending, issued>>

\* Time passes
Tick ==
  /\ lastOp = Idle
  /\ now < MaxTime
  /\ now' = now + 1
  /\ UNCHANGED <<memories, nextId, reads, pending, issued, lastOp>>

\* The history of a store after an operation: kept for the records that stay,
\* 0 for the new ones
ReadsFor(mem) == [id \in DOMAIN mem |-> IF id \in DOMAIN reads THEN reads[id] ELSE 0]

\* MemoryService.memorize(params); gap is the time that passes between two store
\* calls, and the store call of chunk failAt rejects (0: none does)
Memorize(params, gap, failAt) ==
  LET chunks == InputChunks[params]
      n == Len(chunks)
      times == [k \in 1..n |-> Min(now + gap * (k - 1), MaxTime)]
  IN /\ lastOp = Idle
     /\ nextId + n - 1 <= MaxId
     /\ failAt <= n
     /\ \E r \in {memorize([memories |-> memories, nextId |-> nextId], params, chunks,
                           InputMetadata[params], times, failAt)} :
          /\ memories' = r.db.memories
          /\ nextId' = r.db.nextId
          /\ issued' = issued \cup (nextId..(r.db.nextId - 1))
          /\ now' = IF r.db.nextId > nextId THEN times[r.db.nextId - nextId] ELSE now
          /\ reads' = ReadsFor(r.db.memories)
          /\ lastOp' = [op |-> "memorize", params |-> params, failAt |-> failAt,
                        status |-> r.status, error |-> r.error,
                        memoryIds |-> r.memoryIds, chunksCreated |-> r.chunksCreated]
          /\ UNCHANGED pending

\* The memorize tool: parseMemorizeParams(params), then memoryService.memorize;
\* an error of either is thrown on
McpMemorize(raw, gap, failAt) ==
  /\ lastOp = Idle
  /\ \E parsed \in {parseMemorizeParams(raw)} :
       IF parsed.status = "error"
       THEN /\ gap = 0
            /\ failAt = 0
            /\ lastOp' = [op |-> "mcpMemorize", raw |-> raw, status |-> "error",
                          error |-> Some(parsed.error), memoryIds |-> <<>>]
            /\ UNCHANGED <<memories, nextId, now, reads, pending, issued>>
       ELSE LET chunks == InputChunks[parsed.params]
                n == Len(chunks)
                times == [k \in 1..n |-> Min(now + gap * (k - 1), MaxTime)]
            IN /\ nextId + n - 1 <= MaxId
               /\ failAt <= n
               /\ \E r \in {memorize([memories |-> memories, nextId |-> nextId], parsed.params,
                                     chunks, InputMetadata[parsed.params], times, failAt)} :
                    /\ memories' = r.db.memories
                    /\ nextId' = r.db.nextId
                    /\ issued' = issued \cup (nextId..(r.db.nextId - 1))
                    /\ now' = IF r.db.nextId > nextId THEN times[r.db.nextId - nextId] ELSE now
                    /\ reads' = ReadsFor(r.db.memories)
                    /\ lastOp' = [op |-> "mcpMemorize", raw |-> raw, status |-> r.status,
                                  error |-> r.error, memoryIds |-> r.memoryIds]
                    /\ UNCHANGED pending

\* MemoryService.getMemory(id) called by caller c: db.getMemory runs to completion
\* (it has no await), and the caller then awaits the returned promise
CallGetMemory(c, id) ==
  LET r == getMemory(memories, id, now)
  IN /\ lastOp = Idle
     /\ pending[c] = None
     /\ (id \in DOMAIN memories => memories[id].accessCount < MaxAccess /\ reads[id] < MaxAccess)
     /\ memories' = r.memories
     /\ reads' = [x \in DOMAIN reads |-> IF x = id THEN reads[x] + 1 ELSE reads[x]]
     /\ pending' = [pending EXCEPT ![c] = Some(id)]
     /\ lastOp' = [op |-> "getMemory", id |-> id, caller |-> c, result |-> r.result]
     /\ UNCHANGED <<nextId, now, issued>>

\* The getMemory promise caller c awaits resolves
ReturnGetMemory(c) ==
  /\ lastOp = Idle
  /\ pending[c] # None
  /\ pending' = [pending EXCEPT ![c] = None]
  /\ UNCHANGED <<memories, nextId, now, reads, issued, lastOp>>

\* MemoryService.getMemory(id) awaited by a caller while no other call is in
\* flight: the call and the resolution of its promise
GetMemory(id) ==
  LET r == getMemory(memories, id, now)
  IN /\ lastOp = Idle
     /\ \A c \in Callers : pending[c] = None
     /\ (id \in DOMAIN memories => memories[id].accessCount < MaxAccess /\ reads[id] < MaxAccess)
     /\ memories' = r.memories
     /\ reads' = [x \in DOMAIN reads |-> IF x = id THEN reads[x] + 1 ELSE reads[x]]
     /\ lastOp' = [op |-> "getMemory", id |-> id, caller |-> "c1", result |-> r.result]
     /\ UNCHANGED <<nextId, now, pending, issued>>

\* MemoryService.searchMemories(params)
SearchMemories(params) ==
  /\ lastOp = Idle
  /\ lastOp' = [op |-> "searchMemories", params |-> params,
                result |-> searchMemories(memories, params)]
  /\ UNCHANGED <<memories, nextId, now, reads, pending, issued>>

\* SqliteDatabase.searchMemories(params) on the same rows
SqliteSearchMemories(params, unbound) ==
  /\ lastOp = Idle
  /\ \E r \in {sqliteSearchMemories(memories, params, unbound)} :
       lastOp' = [op |-> "sqliteSearchMemories", params |-> params, result |-> r]
  /\ UNCHANGED <<memories, nextId, now, reads, pending, issued>>

\* MemoryDatabase.updateMemory(id, updates)
UpdateMemory(id, updates) ==
  /\ lastOp = Idle
  /\ \E r \in {updateMemory(memories, id, updates, now)} :
       /\ memories' = r.memories
       /\ lastOp' = [op |-> "updateMemory", id |-> id, updates |-> updates, result |-> r.result]
  /\ UNCHANGED <<nextId, now, reads, pending, issued>>

\* MemoryService.getAllTags, getAllCategories and getStats, and
\* ReorganizerService.getReorganizationStats
GetAllTags ==
  /\ lastOp = Idle
  /\ lastOp' = [op |-> "getAllTags", result |-> getAllTags(memories)]
  /\ UNCHANGED <<memories, nextId, now, reads, pending, issued>>

GetAllCategories ==
  /\ lastOp = Idle
  /\ lastOp' = [op |-> "getAllCategories", result |-> getAllCategories(memories)]
  /\ UNCHANGED <<memories, nextId, now, reads, pending, issued>>

GetStats ==
  /\ lastOp = Idle
  /\ lastOp' = [op |-> "getStats", result |-> getStats(memories)]
  /\ UNCHANGED <<memories, nextId, now, reads, pending, issued>>

GetReorganizationStats ==
  /\ lastOp = Idle
  /\ lastOp' = [op |-> "getReorganizationStats",
                result |-> getReorganizationStats(memories, now)]
  /\ UNCHANGED <<memories, nextId, now, reads, pending, issued>>

\* SqliteDatabase.getMemory(id) on the same rows
SqliteGetMemory(id) ==
  /\ lastOp = Idle
  /\ (id \in DOMAIN memories => memories[id].accessCount < MaxAccess /\ reads[id] < MaxAccess)
  /\ \E r \in {sqliteGetMemory(memories, id, now)} :
       /\ memories' = r.memories
       /\ lastOp' = [op |-> "sqliteGetMemory", id |-> id, result |-> r.result]
  /\ reads' = [x \in DOMAIN reads |-> IF x = id THEN reads[x] + 1 ELSE reads[x]]
  /\ UNCHANGED <<nextId, now, pending, issued>>

\* SqliteDatabase.updateMemory(id, updates) on the same rows
SqliteUpdateMemory(id, updates) ==
  /\ lastOp = Idle
  /\ (id \in DOMAIN memories => memories[id].accessCount < MaxAccess /\ reads[id] < MaxAccess)
  /\ \E r \in {sqliteUpdateMemory(memories, id, updates, now)} :
       /\ memories' = r.memories
       /\ lastOp' = [op |-> "sqliteUpdateMemory", id |-> id, updates |-> updates,
                     result |-> r.result]
  /\ reads' = [x \in DOMAIN reads |-> IF x = id THEN reads[x] + 1 ELSE reads[x]]
  /\ UNCHANGED <<nextId, now, pending, issued>>

\* SqliteDatabase.cleanup(maxMemories) on the same rows
SqliteCleanup(maxMemories) ==
  /\ lastOp = Idle
  /\ \E rows \in SqlOldestRows(memories, IF IsGiven(maxMemories) THEN Val(maxMemories) ELSE 0) :
       \E r \in {sqliteCleanup(memories, maxMemories, rows)} :
         /\ memories' = r.memories
         /\ reads' = MapDelete(reads, (DOMAIN memories) \ (DOMAIN r.memories))
         /\ lastOp' = [op |-> "sqliteCleanup", maxMemories |-> maxMemories,
                       removed |-> r.removed, before |-> memories]
  /\ UNCHANGED <<nextId, now, pending, issued>>

\* PgVectorDatabase.cleanup(maxMemories) on the same rows
PgVectorCleanup(maxMemories) ==
  /\ lastOp = Idle
  /\ \E rows \in SqlOldestRows(memories, IF IsGiven(maxMemories) THEN Val(maxMemories) ELSE 0) :
       \E r \in {pgvectorCleanup(memories, maxMemories, rows)} :
         /\ memories' = r.memories
         /\ reads' = MapDelete(reads, (DOMAIN memories) \ (DOMAIN r.memories))
         /\ lastOp' = [op |-> "pgvectorCleanup", maxMemories |-> maxMemories,
                       removed |-> r.removed, before |-> memories]
  /\ UNCHANGED <<nextId, now, pending, issued>>

\* A MemoryService constructed with { chunkSize: size } is about to split a text
InitChunker ==
  /\ memories = <<>>
  /\ nextId = 1
  /\ now = 0
  /\ reads = <<>>
  /\ pending = [c \in Callers |-> None]
  /\ issued = {}
  /\ \E text \in ChunkerTexts, size \in 1..MaxChunkSize :
       lastOp = [op |-> "text", text |-> text, size |-> size]

\* splitTextIntoChunks(text)
SplitTextIntoChunks ==
  /\ lastOp.op = "text"
  /\ lastOp' = [op |-> "splitTextIntoChunks", text |-> lastOp.text, size |-> lastOp.size,
                chunks |-> splitTextIntoChunksWith(lastOp.text, lastOp.size)]
  /\ UNCHANGED <<memories, nextId, now, reads, pending, issued>>

\* A list of tags is at hand
InitGrouping ==
  /\ memories = <<>>
  /\ nextId = 1
  /\ now = 0
  /\ reads = <<>>
  /\ pending = [c \in Callers |-> None]
  /\ issued = {}
  /\ \E tags \in TagLists : lastOp = [op |-> "tags", tags |-> tags]

\* groupSimilarTags(tags), and selectPrimaryTag(group) for every group of more than
\* one tag, as mergeSimilarTags calls them
GroupSimilarTags ==
  /\ lastOp.op = "tags"
  /\ \E groups \in {groupSimilarTags(lastOp.tags)} :
       lastOp' = [op |-> "groupSimilarTags", tags |-> lastOp.tags, groups |-> groups,
                  primaryTag |-> [i \in DOMAIN groups |->
                                   IF Len(groups[i]) <= 1 THEN None
                                   ELSE Some(selectPrimaryTag(groups[i]))]]
  /\ UNCHANGED <<memories, nextId, now, reads, pending, issued>>

\* dispatcher.processRequest(request), awaited while no other call is in flight
ProcessRequest(request) ==
  /\ lastOp = Idle
  /\ \A c \in Callers : pending[c] = None
  /\ \E r \in {processRequest(memories, request, now)} :
       /\ (IsGiven(r.fetched) =>
             memories[Val(r.fetched)].accessCount < MaxAccess /\ reads[Val(r.fetched)] < MaxAccess)
       /\ memories' = r.memories
       /\ reads' = [x \in DOMAIN reads |->
                      IF r.fetched = Some(x) THEN reads[x] + 1 ELSE reads[x]]
       /\ lastOp' = [op |-> "processRequest", request |-> request, response |-> r.response,
                     ran |-> r.ran, before |-> memories]
       /\ UNCHANGED <<nextId, now, pending, issued>>

\* handleRequest(request, dispatcher, config) for a POST request with this
\* Authorization header and body
HandleRequest(authHeader, body) ==
  /\ lastOp = Idle
  /\ \A c \in Callers : pending[c] = None
  /\ \E r \in {handleRequest(memories, authHeader, body, now)} :
       /\ (IsGiven(r.fetched) =>
             memories[Val(r.fetched)].accessCount < MaxAccess /\ reads[Val(r.fetched)] < MaxAccess)
       /\ memories' = r.memories
       /\ reads' = [x \in DOMAIN reads |->
                      IF r.fetched = Some(x) THEN reads[x] + 1 ELSE reads[x]]
       /\ lastOp' = [op |-> "handleRequest", authHeader |-> authHeader, body |-> body,
                     http |-> r.http, bodyRead |-> r.bodyRead, dispatched |-> r.dispatched,
                     ran |-> r.ran, before |-> memories]
       /\ UNCHANGED <<nextId, now, pending, issued>>

\* MemoryDatabase.deleteMemory(id)
DeleteMemory(id) ==
  /\ lastOp = Idle
  /\ memories' = MapDelete(memories, {id})
  /\ reads' = MapDelete(reads, {id})
  /\ lastOp' = [op |-> "deleteMemory", id |-> id, result |-> id \in DOMAIN memories]
  /\ UNCHANGED <<nextId, now, pending, issued>>

\* Whether the rejected port call is one the request makes
FaultApplies(params, fault) ==
  CASE fault = "none" -> TRUE
    [] fault = "getAllTags" -> FlagSet(params, "mergeSimilarTags")
    [] fault \in {"getStats", "cleanup"} -> FlagSet(params, "cleanupOldMemories")

\* ReorganizerService.reorganize(params)
Reorganize(params, fault) ==
  /\ lastOp = Idle
  /\ FaultApplies(params, fault)
  /\ \E r \in {reorganize(memories, params, fault)} :
       /\ memories' = r.memories
       /\ reads' = MapDelete(reads, (DOMAIN memories) \ (DOMAIN r.memories))
       /\ lastOp' = [op |-> "reorganize", params |-> params, result |-> r.result,
                     attempted |-> r.attempted, completed |-> r.completed, cap |-> r.cap,
                     before |-> memories]
       /\ UNCHANGED <<nextId, now, pending, issued>>

Next ==
  \/ Continue
  \/ Initialize
  \/ Close
  \/ Tick
  \/ \E params \in MemorizeInputs, gap \in {0, 1}, failAt \in 0..MaxId : Memorize(params, gap, failAt)
  \/ \E c \in Callers, id \in 1..MaxId : CallGetMemory(c, id)
  \/ \E c \in Callers : ReturnGetMemory(c)
  \/ \E id \in 1..MaxId : GetMemory(id)
  \/ \E params \in SearchInputs : SearchMemories(params)
  \/ \E params \in BlankInputs : Memorize(params, 0, 0)
  \/ \E raw \in McpMemorizeInputs, gap \in {0, 1}, failAt \in 0..MaxId : McpMemorize(raw, gap, failAt)
  \/ \E params \in SqliteSearchInputs, unbound \in UnboundOutcomes :
       SqliteSearchMemories(params, unbound)
  \/ \E id \in 1..MaxId, updates \in UpdateInputs : UpdateMemory(id, updates)
  \/ \E id \in 1..MaxId : DeleteMemory(id)
  \/ \E params \in ReorganizeInputs, fault \in Faults : Reorganize(params, fault)
  \/ \E request \in DispatcherRequests : ProcessRequest(request)
  \/ \E authHeader \in AuthHeaders, body \in HttpBodies : HandleRequest(authHeader, body)
  \/ \E id \in 1..MaxId, updates \in PatchInputs : UpdateMemory(id, updates)
  \/ \E id \in 1..MaxId : SqliteGetMemory(id)
  \/ \E id \in 1..MaxId, updates \in PatchInputs : SqliteUpdateMemory(id, updates)
  \/ GetAllTags
  \/ GetAllCategories
  \/ GetStats
  \/ GetReorganizationStats
  \/ \E maxMemories \in CleanupInputs : SqliteCleanup(maxMemories)
  \/ \E maxMemories \in CleanupInputs : PgVectorCleanup(maxMemories)

Spec == Init /\ [][Next]_vars

\* The store under memorize, overlapping getMemory calls, deleteMemory, close and
\* initialize. searchMemories leaves the store as it is and reorganize only
\* deletes records; updateMemory is not called here.
NextStore ==
  \/ Continue
  \/ Initialize
  \/ Close
  \/ Tick
  \/ \E params \in MemorizeInputs, gap \in {0, 1}, failAt \in 0..MaxId : Memorize(params, gap, failAt)
  \/ \E c \in Callers, id \in 1..MaxId : CallGetMemory(c, id)
  \/ \E c \in Callers : ReturnGetMemory(c)
  \/ \E id \in 1..MaxId : DeleteMemory(id)

SpecStore == Init /\ [][NextStore]_vars

\* reorganize called on the stores that memorize, getMemory and deleteMemory build
NextReorganize ==
  \/ Continue
  \/ Tick
  \/ \E params \in MemorizeInputs, gap \in {0, 1}, failAt \in 0..MaxId : Memorize(params, gap, failAt)
  \/ \E id \in 1..MaxId : GetMemory(id)
  \/ \E id \in 1..MaxId : DeleteMemory(id)
  \/ \E params \in ReorganizeInputs, fault \in Faults : Reorganize(params, fault)

SpecReorganize == Init /\ [][NextReorganize]_vars

\* searchMemories called on the stores that memorize, getMemory and deleteMemory build
NextSearch ==
  \/ Continue
  \/ Tick
  \/ \E params \in MemorizeInputs, gap \in {0, 1}, failAt \in 0..MaxId : Memorize(params, gap, failAt)
  \/ \E id \in 1..MaxId : GetMemory(id)
  \/ \E id \in 1..MaxId : DeleteMemory(id)
  \/ \E params \in SearchInputs : SearchMemories(params)

SpecSearch == Init /\ [][NextSearch]_vars

\* searchMemories called with every combination of filters
NextFilter ==
  \/ Continue
  \/ Tick
  \/ \E params \in MemorizeInputs, gap \in {0, 1}, failAt \in 0..MaxId : Memorize(params, gap, failAt)
  \/ \E id \in 1..MaxId : DeleteMemory(id)
  \/ \E params \in FilterInputs : SearchMemories(params)

SpecFilter == Init /\ [][NextFilter]_vars

\* searchMemories called with every sort key and direction
NextSort ==
  \/ Continue
  \/ Tick
  \/ \E params \in MemorizeInputs, gap \in {0, 1}, failAt \in 0..MaxId : Memorize(params, gap, failAt)
  \/ \E id \in 1..MaxId : GetMemory(id)
  \/ \E id \in 1..MaxId : DeleteMemory(id)
  \/ \E params \in SortInputs : SearchMemories(params)

SpecSort == Init /\ [][NextSort]_vars

\* The operations of the storage port that read or write accessCount, called in
\* any order (cleanup through reorganize)
NextUpdate ==
  \/ Continue
  \/ Tick
  \/ \E params \in MemorizeInputs, gap \in {0, 1}, failAt \in 0..MaxId : Memorize(params, gap, failAt)
  \/ \E id \in 1..MaxId : GetMemory(id)
  \/ \E id \in 1..MaxId, updates \in UpdateInputs : UpdateMemory(id, updates)
  \/ \E params \in {SearchParams(None, None, None)} : SearchMemories(params)
  \/ \E id \in 1..MaxId : DeleteMemory(id)
  \/ \E params \in {p \in ReorganizeInputs : p.maxMemories = Some(1)} : Reorganize(params, "none")

SpecUpdate == Init /\ [][NextUpdate]_vars

\* memorize called with and without a text, its store calls failing or not
NextMemorize ==
  \/ Continue
  \/ Tick
  \/ \E params \in MemorizeInputs \cup BlankInputs, gap \in {0, 1}, failAt \in 0..MaxId :
       Memorize(params, gap, failAt)
  \/ \E id \in 1..MaxId : DeleteMemory(id)

SpecMemorize == Init /\ [][NextMemorize]_vars

\* The memorize tool of the MCP front end and the service behind it
NextFrontEnd ==
  \/ Continue
  \/ Tick
  \/ \E raw \in McpMemorizeInputs, gap \in {0, 1}, failAt \in 0..MaxId : McpMemorize(raw, gap, failAt)
  \/ \E id \in 1..MaxId : DeleteMemory(id)

SpecFrontEnd == Init /\ [][NextFrontEnd]_vars

\* The chunker alone, on every text and chunkSize within the bounds
NextChunker == SplitTextIntoChunks

SpecChunker == InitChunker /\ [][NextChunker]_vars

\* The two backends' searchMemories called on the same stores
NextSqlite ==
  \/ Continue
  \/ Tick
  \/ \E params \in MemorizeInputs, gap \in {0, 1}, failAt \in 0..MaxId : Memorize(params, gap, failAt)
  \/ \E id \in 1..MaxId : DeleteMemory(id)
  \/ \E params \in SearchInputs : SearchMemories(params)
  \/ \E params \in SqliteSearchInputs, unbound \in UnboundOutcomes :
       SqliteSearchMemories(params, unbound)

SpecSqlite == Init /\ [][NextSqlite]_vars

\* memorize called with and without a category on texts of every keyword group
NextCategory ==
  \/ Continue
  \/ \E params \in CategoryInputs : Memorize(params, 0, 0)
  \/ \E id \in 1..MaxId : DeleteMemory(id)

SpecCategory == Init /\ [][NextCategory]_vars

\* The dispatcher answering requests over a store that memorize fills
NextDispatcher ==
  \/ Continue
  \/ Tick
  \/ \E params \in MemorizeInputs : Memorize(params, 0, 0)
  \/ \E id \in 1..MaxId : DeleteMemory(id)
  \/ \E request \in DispatcherRequests : ProcessRequest(request)

SpecDispatcher == Init /\ [][NextDispatcher]_vars

\* The HTTP server answering POST requests over a store that memorize fills
NextHttp ==
  \/ Continue
  \/ Tick
  \/ \E params \in MemorizeInputs : Memorize(params, 0, 0)
  \/ \E id \in 1..MaxId : DeleteMemory(id)
  \/ \E authHeader \in AuthHeaders, body \in HttpBodies : HandleRequest(authHeader, body)

SpecHttp == Init /\ [][NextHttp]_vars

\* The grouping of tags alone, on every list of tags within the bounds
NextGrouping == GroupSimilarTags

SpecGrouping == InitGrouping /\ [][NextGrouping]_vars

\* getMemory and updateMemory of the two backends, with patches of any field
NextPatch ==
  \/ Continue
  \/ Tick
  \/ \E params \in MemorizeInputs : Memorize(params, 0, 0)
  \/ \E id \in 1..MaxId : GetMemory(id)
  \/ \E id \in 1..MaxId, updates \in PatchInputs : UpdateMemory(id, updates)
  \/ \E id \in 1..MaxId : SqliteGetMemory(id)
  \/ \E id \in 1..MaxId, updates \in PatchInputs : SqliteUpdateMemory(id, updates)
  \/ \E id \in 1..MaxId : DeleteMemory(id)

SpecPatch == Init /\ [][NextPatch]_vars

\* The operations that read the store, and getMemory, on the stores memorize
\* and deleteMemory build
NextReads ==
  \/ Continue
  \/ Tick
  \/ \E params \in ReadsInputs : Memorize(params, 0, 0)
  \/ \E id \in 1..MaxId : GetMemory(id)
  \/ \E id \in 1..MaxId : DeleteMemory(id)
  \/ \E params \in {SearchParams(None, None, None), SearchParams(Some(<<TagApi>>), Some(1), None)} :
       SearchMemories(params)
  \/ GetAllTags
  \/ GetAllCategories
  \/ GetStats
  \/ GetReorganizationStats

SpecReads == Init /\ [][NextReads]_vars

\* cleanup of the SQL backends on the stores memorize, getMemory and
\* deleteMemory build
NextCleanup ==
  \/ Continue
  \/ Tick
  \/ \E params \in MemorizeInputs, gap \in {0, 1} : Memorize(params, gap, 0)
  \/ \E id \in 1..MaxId : GetMemory(id)
  \/ \E id \in 1..MaxId : DeleteMemory(id)
  \/ \E maxMemories \in CleanupInputs : SqliteCleanup(maxMemories)
  \/ \E maxMemories \in CleanupInputs : PgVectorCleanup(maxMemories)

SpecCleanup == Init /\ [][NextCleanup]_vars

\* ------------------------------------------------------------ properties

\* lastOp is the observation point: a state with lastOp.op = "x" is the state
\* right after operation x ran, and `memories` is the store it left.

\* C1: a memorize call with non-blank text that returns normally reports
\* chunksCreated equal to the number of ids it returns, returns one id per chunk
\* in chunk order, and getMemory on each of these ids right afterwards finds the
\* chunk (never undefined).
C1_MemorizeIdsResolve ==
  (lastOp.op = "memorize" /\ lastOp.status = "ok") =>
    LET ids == lastOp.memoryIds
        chunks == InputChunks[lastOp.params]
    IN /\ trim(lastOp.params.text) # <<>>
       /\ lastOp.chunksCreated = Len(ids)
       /\ Len(ids) = Len(chunks)
       /\ \A k \in 1..Len(ids) :
            LET got == getMemory(memories, ids[k], now).result
            IN /\ got # None
               /\ Val(got).id = ids[k]
               /\ Val(got).text = chunks[k]
       /\ \A j, k \in 1..Len(ids) : j < k => ids[j] < ids[k]

\* A memorize call that stored two chunks has just returned
C1_Witness ==
  /\ lastOp.op = "memorize"
  /\ lastOp.status = "ok"
  /\ Len(lastOp.memoryIds) = 2
  /\ lastOp.chunksCreated = 2

\* C2: every getMemory call on a stored id raises that record's accessCount by
\* exactly 1, so the count of a stored record is its initial 0 plus the number
\* of getMemory calls made on it, however the calls of the callers overlap; the
\* record a call returns carries that count.
C2_AccessCountCountsCalls ==
  /\ \A id \in DOMAIN memories : memories[id].accessCount = reads[id]
  /\ (lastOp.op = "getMemory" /\ lastOp.result # None) =>
       /\ lastOp.id \in DOMAIN memories
       /\ Val(lastOp.result).accessCount = reads[lastOp.id]
       /\ reads[lastOp.id] >= 1

\* Both callers have a getMemory call on record 1 in flight, and its count is 2
C2_Witness ==
  /\ \A c \in Callers : pending[c] = Some(1)
  /\ lastOp.op = "getMemory"
  /\ 1 \in DOMAIN memories
  /\ reads[1] = 2
  /\ memories[1].accessCount = 2

\* Whether the request asked for the sub-operation (its flag is true)
Asked(params, name) ==
  \/ name = "mergeSimilarTags" /\ params.mergeSimilarTags = Some(TRUE)
  \/ name = "cleanupOldMemories" /\ params.cleanupOldMemories = Some(TRUE)
  \/ name = "optimizeStorage" /\ params.optimizeStorage = Some(TRUE)

\* The sub-operation ran to its end during the last reorganize
Completed(name) == name \in Range(lastOp.completed)

\* The tags of the records of a store, as sets
TagsOf(mem, id) == Range(mem[id].metadata.tags)

\* C3: after reorganize({mergeSimilarTags: true}) has returned, for every
\* similarity group of size > 1 among the tags the store held, no stored record
\* carries a secondary tag of the group, and every record that carried one
\* carries the group's primary tag.
C3_SecondaryTagsReplaced ==
  (lastOp.op = "reorganize" /\ Completed("mergeSimilarTags")) =>
    \A g \in MergeableGroups(getAllTags(lastOp.before)) :
      LET primary == selectPrimaryTag(g)
      IN \A tag \in Range(g) \ {primary} :
           \A id \in DOMAIN memories :
             /\ tag \notin TagsOf(memories, id)
             /\ tag \in TagsOf(lastOp.before, id) => primary \in TagsOf(memories, id)

\* C4: the tagsMerged that reorganize({mergeSimilarTags: true}) returns is the
\* number of similarity groups of size > 1 among the store's tags at the call.
C4_TagsMergedCountsGroups ==
  (lastOp.op = "reorganize" /\ Completed("mergeSimilarTags")) =>
    lastOp.result.tagsMerged = Cardinality(MergeableGroups(getAllTags(lastOp.before)))

\* C5: on a store of n records, a reorganize whose cleanup runs with a cap
\* c >= 1 given by the caller leaves exactly min(n, c) records and returns
\* memoriesCleaned = n - min(n, c); when n <= c it deletes nothing.
C5_CleanupLeavesCap ==
  (/\ lastOp.op = "reorganize"
   /\ Completed("cleanupOldMemories")
   /\ IsGiven(lastOp.params.maxMemories)
   /\ Val(lastOp.params.maxMemories) >= 1) =>
    LET n == Cardinality(DOMAIN lastOp.before)
        c == Val(lastOp.params.maxMemories)
    IN /\ Cardinality(DOMAIN memories) = Min(n, c)
       /\ lastOp.result.memoriesCleaned = n - Min(n, c)
       /\ \A id \in DOMAIN memories : memories[id] = lastOp.before[id]
       /\ n <= c => (memories = lastOp.before /\ lastOp.result.memoriesCleaned = 0)

\* A cleanup with cap 1 has just removed one of two records
C5_Witness ==
  /\ lastOp.op = "reorganize"
  /\ Completed("cleanupOldMemories")
  /\ lastOp.params.maxMemories = Some(1)
  /\ Cardinality(DOMAIN lastOp.before) = 2
  /\ Cardinality(DOMAIN memories) = 1
  /\ lastOp.result.memoriesCleaned = 1

\* a comes no later than b in the order (accessCount, then createdAt)
CleanupOrderLeq(a, b) ==
  \/ a.accessCount < b.accessCount
  \/ a.accessCount = b.accessCount /\ a.createdAt <= b.createdAt

\* C6: when the cleanup of the in-memory store removes records, every removed
\* record is less than or equal to every retained record in the ascending
\* order (accessCount, then createdAt).
C6_CleanupRemovesLeast ==
  (lastOp.op = "reorganize" /\ Completed("cleanupOldMemories")) =>
    \A gone \in (DOMAIN lastOp.before) \ (DOMAIN memories) :
      \A kept \in DOMAIN memories :
        CleanupOrderLeq(lastOp.before[gone], lastOp.before[kept])

\* A cleanup has just removed a record stored after the one it kept, because
\* the older record had been read more often
C6_Witness ==
  /\ lastOp.op = "reorganize"
  /\ Completed("cleanupOldMemories")
  /\ \E gone \in (DOMAIN lastOp.before) \ (DOMAIN memories) :
       \E kept \in DOMAIN memories :
         /\ gone > kept
         /\ lastOp.before[gone].accessCount < lastOp.before[kept].accessCount
         /\ lastOp.before[gone].createdAt > lastOp.before[kept].createdAt

\* C7: the cap reorganize's cleanup resolves is the caller's maxMemories
\* whenever the caller gives one, and 1000 only when it gives none.
C7_CapIsCallersMaxMemories ==
  (lastOp.op = "reorganize" /\ lastOp.cap # None) =>
    lastOp.cap = IF IsGiven(lastOp.params.maxMemories) THEN lastOp.params.maxMemories
                 ELSE Some(1000)

\* C8: when a sub-operation of reorganize throws, reorganize returns status
\* "error" with the error message, the counts are those of the sub-operations
\* that completed before the failure (0 / false for the failed one and the
\* later ones), the store is as the completed ones left it, and nothing is
\* attempted after the failure.
C8_FailureStopsReorganize ==
  (lastOp.op = "reorganize" /\ lastOp.attempted # lastOp.completed) =>
    LET a == lastOp.attempted
        r == lastOp.result
    IN /\ r.status = "error"
       /\ r.error = Some(DbError)
       /\ lastOp.completed = SubSeq(a, 1, Len(a) - 1)
       /\ ~Completed("mergeSimilarTags") => r.tagsMerged = 0
       /\ ~Completed("cleanupOldMemories") =>
            (r.memoriesCleaned = 0 /\ memories = lastOp.before)
       /\ ~Completed("optimizeStorage") => r.storageOptimized = FALSE
       /\ r.memoriesCleaned =
            Cardinality((DOMAIN lastOp.before) \ (DOMAIN memories))

\* The cleanup of a reorganize that had merged tags and was to optimize storage
\* has just thrown
C8_Witness ==
  /\ lastOp.op = "reorganize"
  /\ lastOp.result.status = "error"
  /\ lastOp.attempted = <<"mergeSimilarTags", "cleanupOldMemories">>
  /\ lastOp.completed = <<"mergeSimilarTags">>
  /\ lastOp.params.optimizeStorage = Some(TRUE)
  /\ lastOp.result.storageOptimized = FALSE

\* The place of a sub-operation in the order tag merge, cleanup, optimize
Place(name) ==
  CASE name = "mergeSimilarTags" -> 1
    [] name = "cleanupOldMemories" -> 2
    [] name = "optimizeStorage" -> 3

\* C9: reorganize attempts a sub-operation only if its flag is true, and in the
\* order tag merge, cleanup, optimize; with no flag set it returns status "ok",
\* tagsMerged 0, memoriesCleaned 0, storageOptimized false and leaves the store
\* as it was.
C9_OnlyAskedInOrder ==
  lastOp.op = "reorganize" =>
    LET a == lastOp.attempted
        r == lastOp.result
    IN /\ \A i \in 1..Len(a) : Asked(lastOp.params, a[i])
       /\ \A i, j \in 1..Len(a) : i < j => Place(a[i]) < Place(a[j])
       /\ (\A name \in Range(SubOperations) : ~Asked(lastOp.params, name)) =>
            /\ a = <<>>
            /\ r.status = "ok"
            /\ r.tagsMerged = 0
            /\ r.memoriesCleaned = 0
            /\ r.storageOptimized = FALSE
            /\ memories = lastOp.before

\* A reorganize asked for all three sub-operations has just run them in order
\* on a store that holds records
C9_Witness ==
  /\ lastOp.op = "reorganize"
  /\ lastOp.attempted = <<"mergeSimilarTags", "cleanupOldMemories", "optimizeStorage">>
  /\ lastOp.result.status = "ok"
  /\ lastOp.result.storageOptimized = TRUE
  /\ lastOp.before # <<>>

\* C10: whatever limit and offset are passed to searchMemories on the in-memory
\* store, the result has hasMore = (offset + number of returned memories <
\* total), the offset being 0 and the limit 50 when absent.
C10_HasMoreFromReturned ==
  lastOp.op = "searchMemories" =>
    LET r == lastOp.result
        offset == IF IsGiven(lastOp.params.offset) THEN Val(lastOp.params.offset) ELSE 0
    IN r.hasMore = (offset + Len(r.memories) < r.total)

\* q occurs in s when the case of the letters is ignored
ContainsIgnoringCase(s, q) ==
  \E p \in 0..(Len(s) - Len(q)) :
    \A i \in 1..Len(q) : ToLowerChar(s[p + i]) = ToLowerChar(q[i])

\* The record satisfies every filter the request supplies (an empty list of
\* tags, an empty category and an empty query supply no filter)
Satisfies(m, params) ==
  /\ (IsGiven(params.tags) /\ Val(params.tags) # <<>>) =>
       Range(Val(params.tags)) \cap Range(m.metadata.tags) # {}
  /\ (IsGiven(params.category) /\ Val(params.category) # "") =>
       (IsGiven(m.metadata.category) /\ Val(m.metadata.category) = Val(params.category))
  /\ IsGiven(params.dateFrom) => Val(params.dateFrom) <= m.createdAt
  /\ IsGiven(params.dateTo) => m.createdAt <= Val(params.dateTo)
  /\ (IsGiven(params.query) /\ Val(params.query) # <<>>) =>
       \/ ContainsIgnoringCase(m.text, Val(params.query))
       \/ \E tag \in Range(m.metadata.tags) : ContainsIgnoringCase(tag, Val(params.query))
       \/ (IsGiven(m.metadata.context)
           /\ ContainsIgnoringCase(Val(m.metadata.context), Val(params.query)))

\* The stored records that satisfy the request's filters
FilteredSet(mem, params) == {id \in DOMAIN mem : Satisfies(mem[id], params)}

\* The limits and offsets the same filters are asked again with
PageProbes == {None, Some(1)}

\* C11: for a store and filters, the total searchMemories returns is the size
\* of the filtered set before pagination, and it is the same whatever limit and
\* offset the request carries; this on the in-memory and on the SQLite backend
\* (whose filtered set is what the same request returns without limit and offset).
C11_TotalIgnoresPaging ==
  /\ lastOp.op = "searchMemories" =>
       /\ lastOp.result.total = Cardinality(FilteredSet(memories, lastOp.params))
       /\ \A l \in PageProbes, o \in PageProbes :
            searchMemories(memories, [lastOp.params EXCEPT !.limit = l, !.offset = o]).total
              = lastOp.result.total
  /\ (lastOp.op = "sqliteSearchMemories" /\ lastOp.result.status = "ok") =>
       \A l \in PageProbes, o \in PageProbes, unbound \in UnboundOutcomes :
         LET other == sqliteSearchMemories(
                        memories, [lastOp.params EXCEPT !.limit = l, !.offset = o], unbound)
         IN other.status = "ok" =>
              /\ other.total = lastOp.result.total
              /\ (l = None /\ o = None) => Len(other.memories) = lastOp.result.total

SortKey(m, params) ==
  LET sortBy == IF IsGiven(params.sortBy) THEN Val(params.sortBy) ELSE "date"
  IN CASE sortBy = "date" -> m.createdAt
       [] sortBy = "access" -> m.accessCount
       [] sortBy = "priority" -> m.metadata.priority
       [] sortBy = "relevance" -> m.accessCount

\* The sequence of ids is ordered by the requested key in the requested direction
InRequestedOrder(mem, ids, params) ==
  \A i \in 1..Len(ids), j \in 1..Len(ids) :
    i < j => IF params.sortOrder = Some("asc")
             THEN SortKey(mem[ids[i]], params) <= SortKey(mem[ids[j]], params)
             ELSE SortKey(mem[ids[i]], params) >= SortKey(mem[ids[j]], params)

\* The arrangements of a set of ids in a sequence
Orderings(S) ==
  {s \in [1..Cardinality(S) -> S] : \A i, j \in 1..Cardinality(S) : s[i] = s[j] => i = j}

\* The elements of seq at the 0-based positions a <= p < b
Interval(seq, a, b) == SubSeq(seq, Max(a, 0) + 1, Min(b, Len(seq)))

\* C13: the memories searchMemories returns are ordered by the requested key
\* (date = createdAt, access and relevance = accessCount, priority =
\* metadata.priority) in the requested direction, by date descending when none
\* is given, and they are the positions [offset, offset + limit) of the ordered
\* filtered set, the offset being 0 and the limit 50 when absent.
C13_SortedSlice ==
  lastOp.op = "searchMemories" =>
    LET page == lastOp.result.memories
        offset == IF IsGiven(lastOp.params.offset) THEN Val(lastOp.params.offset) ELSE 0
        limit == IF IsGiven(lastOp.params.limit) THEN Val(lastOp.params.limit) ELSE 50
    IN /\ InRequestedOrder(memories, page, lastOp.params)
       /\ \E sorted \in Orderings(FilteredSet(memories, lastOp.params)) :
            /\ InRequestedOrder(memories, sorted, lastOp.params)
            /\ page = Interval(sorted, offset, offset + limit)

\* C14: a memorize call whose text is empty or only whitespace fails with the
\* invalid-input error and changes nothing in the store: no record is added,
\* replaced or removed and no id is handed out.
C14_BlankTextRejected ==
  [][(lastOp'.op = "memorize" /\ trim(lastOp'.params.text) = <<>>) =>
       /\ lastOp'.status = "error"
       /\ lastOp'.error = Some("Text cannot be empty")
       /\ lastOp'.memoryIds = <<>>
       /\ memories' = memories
       /\ nextId' = nextId]_vars

\* A memorize call with whitespace-only text has just failed on a store that
\* holds records
C14_Witness ==
  /\ lastOp.op = "memorize"
  /\ lastOp.params.text = TextBlank
  /\ lastOp.status = "error"
  /\ memories # <<>>

\* C15: when storing chunk k of a memorize call fails, the call fails with
\* that error, the chunks 1..k-1 stay stored under the next k-1 ids (nothing
\* is rolled back) and no later chunk is stored.
C15_PartialFailureKept ==
  [][(lastOp'.op = "memorize" /\ lastOp'.failAt > 0) =>
       LET k == lastOp'.failAt
           chunks == InputChunks[lastOp'.params]
       IN /\ lastOp'.status = "error"
          /\ lastOp'.error = Some(DbError)
          /\ DOMAIN memories' = (DOMAIN memories) \cup (nextId..(nextId + k - 2))
          /\ \A id \in DOMAIN memories : memories'[id] = memories[id]
          /\ \A j \in 1..(k - 1) : memories'[nextId + j - 1].text = chunks[j]]_vars

\* A memorize call of two chunks has just failed on its second chunk and the
\* first chunk is stored
C15_Witness ==
  /\ lastOp.op = "memorize"
  /\ lastOp.failAt = 2
  /\ lastOp.status = "error"
  /\ nextId - 1 \in DOMAIN memories
  /\ memories[nextId - 1].text = InputChunks[lastOp.params][1]

\* C16: the accessCount of every stored record is at least 0, and no
\* operation of the storage port (storeMemory, getMemory, updateMemory,
\* searchMemories, deleteMemory, cleanup) lowers the accessCount of a record
\* that stays in the store.
C16_AccessCountNeverDecreases ==
  /\ [](\A id \in DOMAIN memories : memories[id].accessCount >= 0)
  /\ [][\A id \in (DOMAIN memories) \cap (DOMAIN memories') :
          memories'[id].accessCount >= memories[id].accessCount]_vars

\* C17: over storeMemory, deleteMemory, close and initialize calls, an id that
\* storeMemory has returned is never returned again by a later call, and the
\* ids a call returns are not those of records already in the store.
C17_IdsNeverReused ==
  [][lastOp'.op = "memorize" =>
       /\ Range(lastOp'.memoryIds) \cap issued = {}
       /\ Range(lastOp'.memoryIds) \cap DOMAIN memories = {}]_vars

\* C18: every stored record has metadata.priority in 1..10 whatever memorize
\* requests went through the front end: a supplied priority is stored clamped
\* into [1, 10], an absent one as 5.
C18_PriorityInRange ==
  /\ \A id \in DOMAIN memories : memories[id].metadata.priority \in 1..10
  /\ (lastOp.op = "mcpMemorize" /\ lastOp.status = "ok") =>
       \A k \in 1..Len(lastOp.memoryIds) :
         memories[lastOp.memoryIds[k]].metadata.priority =
           IF ~IsGiven(lastOp.raw.priority) THEN 5
           ELSE IF Val(lastOp.raw.priority) < 1 THEN 1
           ELSE IF Val(lastOp.raw.priority) > 10 THEN 10
           ELSE Val(lastOp.raw.priority)

\* A request with priority 11 has just been stored, next to a record of
\* priority 1
C18_Witness ==
  /\ lastOp.op = "mcpMemorize"
  /\ lastOp.status = "ok"
  /\ lastOp.raw.priority = Some(11)
  /\ \E id \in DOMAIN memories : memories[id].metadata.priority = 1

\* A whitespace character follows a sentence end inside s: s is more than one sentence
HasSentenceBreak(s) ==
  \E i \in 2..Len(s) : s[i - 1] \in {".", "!", "?"} /\ s[i] \in {" ", "\n", "\t"}

\* C19: every chunk the chunker emits is at most maxChunkSize long, unless it
\* is one sentence that is itself longer than maxChunkSize.
C19_ChunksWithinSize ==
  lastOp.op = "splitTextIntoChunks" =>
    \A k \in 1..Len(lastOp.chunks) :
      \/ Len(lastOp.chunks[k]) <= lastOp.size
      \/ ~HasSentenceBreak(lastOp.chunks[k])

\* The words of a text: its maximal runs of characters that are not whitespace
RECURSIVE WordsFrom(_, _, _)
WordsFrom(s, i, word) ==
  IF i > Len(s) THEN (IF word = <<>> THEN <<>> ELSE <<word>>)
  ELSE IF s[i] \in {" ", "\n", "\t"}
       THEN (IF word = <<>> THEN <<>> ELSE <<word>>) \o WordsFrom(s, i + 1, <<>>)
  ELSE WordsFrom(s, i + 1, Append(word, s[i]))

\* Strings joined with single spaces
RECURSIVE JoinWithSpaces(_)
JoinWithSpaces(strings) ==
  IF strings = <<>> THEN <<>>
  ELSE IF Len(strings) = 1 THEN strings[1]
  ELSE strings[1] \o <<" ">> \o JoinWithSpaces(Tail(strings))

\* C20: the chunker emits no empty chunk, emits at least one chunk when the text
\* is not only whitespace, and the chunks joined in order with single spaces
\* are the text with its whitespace runs made single spaces and trimmed
\* (nothing lost, repeated, reordered or cut).
C20_ChunksReconstructText ==
  lastOp.op = "splitTextIntoChunks" =>
    /\ \A k \in 1..Len(lastOp.chunks) : lastOp.chunks[k] # <<>>
    /\ WordsFrom(lastOp.text, 1, <<>>) # <<>> => Len(lastOp.chunks) >= 1
    /\ JoinWithSpaces(lastOp.chunks) = JoinWithSpaces(WordsFrom(lastOp.text, 1, <<>>))

\* A text with a newline and a doubled space has just been split in two chunks
C20_Witness ==
  /\ lastOp.op = "splitTextIntoChunks"
  /\ Len(lastOp.chunks) = 2
  /\ \E i \in 1..Len(lastOp.text) : lastOp.text[i] = "\n"
  /\ Len(JoinWithSpaces(lastOp.chunks)) < Len(lastOp.text)

\* The keyword groups of the category derivation, in their fixed order
KeywordGroups ==
  << [category |-> "troubleshooting", keywords |-> {<<"b", "u", "g">>, <<"e", "r", "r", "o", "r">>, <<"i", "s", "s", "u", "e">>}],
     [category |-> "api", keywords |-> {<<"a", "p", "i">>, <<"e", "n", "d", "p", "o", "i", "n", "t">>, <<"r", "e", "s", "t">>}],
     [category |-> "database", keywords |-> {<<"d", "a", "t", "a", "b", "a", "s", "e">>, <<"s", "q", "l">>, <<"q", "u", "e", "r", "y">>}],
     [category |-> "deployment", keywords |-> {<<"d", "e", "p", "l", "o", "y">>, <<"d", "o", "c", "k", "e", "r">>, <<"k", "u", "b", "e", "r", "n", "e", "t", "e", "s">>}],
     [category |-> "testing", keywords |-> {<<"t", "e", "s", "t">>, <<"s", "p", "e", "c">>, <<"u", "n", "i", "t">>}] >>

\* The category of the first group with a keyword in the lowercased text
InferredCategory(text) ==
  LET lower == toLowerCase(text)
      hits == {g \in DOMAIN KeywordGroups :
                 \E w \in KeywordGroups[g].keywords : includes(lower, w)}
  IN IF hits = {} THEN None
     ELSE Some(KeywordGroups[CHOOSE g \in hits : \A h \in hits : g <= h].category)

\* C21: the category stored for a chunk is the caller-supplied category
\* unchanged when one is supplied; otherwise it is the category of the first
\* keyword group (troubleshooting, api, database, deployment, testing) with a
\* keyword in the lowercased chunk text, and unset when no group matches.
C21_CategorySuppliedOrInferred ==
  (lastOp.op = "memorize" /\ lastOp.status = "ok") =>
    \A k \in 1..Len(lastOp.memoryIds) :
      LET m == memories[lastOp.memoryIds[k]]
      IN m.metadata.category =
           IF IsGiven(lastOp.params.category) THEN lastOp.params.category
           ELSE InferredCategory(m.text)

\* The request fields the response is about
RequestIdOf(request) == IF request.json = "object" THEN request.id ELSE None

\* C22: processRequest always returns a response carrying the request's id with
\* exactly one of result or error; a request naming a tool that is not registered
\* yields error code UNKNOWN_TOOL, a request missing tool or params yields error
\* code VALIDATION_ERROR, and in both cases no tool handler is run.
C22_DispatcherAnswers ==
  lastOp.op = "processRequest" =>
    LET request == lastOp.request
        response == lastOp.response
    IN /\ IsGiven(response.result) # IsGiven(response.error)
       /\ IsGiven(RequestIdOf(request)) => response.id = Val(request.id)
       /\ (validateMCPRequest(request) /\ Val(request.tool).value \notin tools) =>
            /\ IsGiven(response.error)
            /\ Val(response.error).code = "UNKNOWN_TOOL"
            /\ lastOp.ran = None
            /\ memories = lastOp.before
       /\ (request.json = "object" /\ (request.tool = None \/ request.params = None)) =>
            /\ IsGiven(response.error)
            /\ Val(response.error).code = "VALIDATION_ERROR"
            /\ lastOp.ran = None
            /\ memories = lastOp.before

\* The params of a get_memory request that carry no id: none, an empty one, a
\* blank one
NoIdParams == {<<>>, [id |-> Str(<<>>)], [id |-> Str(<<" ", " ">>)]}

\* C23: a get_memory request for an id that is not in the store produces a
\* not-found failure the caller can tell from the validation failure produced
\* for a missing or empty id: the two responses do not carry the same error.
C23_NotFoundDistinctFromValidation ==
  (/\ lastOp.op = "processRequest"
   /\ validateMCPRequest(lastOp.request)
   /\ Val(lastOp.request.tool).value = "get_memory"
   /\ Val(lastOp.request.params).value \notin NoIdParams
   /\ Val(lastOp.request.params).value.id.type = "string"
   /\ IdOf(trim(Val(lastOp.request.params).value.id.value)) \notin DOMAIN lastOp.before) =>
    /\ IsGiven(lastOp.response.error)
    /\ \A params \in NoIdParams :
         LET other == [lastOp.request EXCEPT !.params = Some(Obj(params))]
         IN processRequest(lastOp.before, other, now).response.error # lastOp.response.error

\* C24: a POST request reaches the dispatcher only if its Authorization header
\* is exactly "Bearer " followed by the configured token; any other header, or
\* none, is answered with status 400 and code AUTHENTICATION_ERROR before the
\* body is read, with no tool run and the store unchanged.
C24_OnlyBearerTokenDispatched ==
  lastOp.op = "handleRequest" =>
    /\ lastOp.dispatched => lastOp.authHeader = Some(BearerPrefix \o authToken)
    /\ lastOp.authHeader # Some(BearerPrefix \o authToken) =>
         /\ lastOp.http.status = 400
         /\ lastOp.http.body.error # None
         /\ Val(lastOp.http.body.error).code = "AUTHENTICATION_ERROR"
         /\ lastOp.http.body.result = None
         /\ ~lastOp.bodyRead
         /\ ~lastOp.dispatched
         /\ lastOp.ran = None
         /\ memories = lastOp.before

\* A get_memory request for a stored record came with "Bearer " and a token that
\* is not the configured one: it was refused and the record was not fetched
C24_Witness ==
  /\ lastOp.op = "handleRequest"
  /\ lastOp.authHeader = Some(BearerPrefix \o <<"t", "k", "x">>)
  /\ lastOp.body = JsonBody(McpRequest(Some(Str("r1")), Some(Str("get_memory")),
                                       Some(Obj([id |-> Str(IdText(1))]))))
  /\ 1 \in DOMAIN memories
  /\ memories[1].accessCount = 0
  /\ lastOp.http.status = 400

\* The tags of the groups before group i
GroupedBefore(groups, i) == UNION {Range(groups[j]) : j \in 1..(i - 1)}

\* The number of tags in the groups
RECURSIVE GroupSizes(_, _)
GroupSizes(groups, i) == IF i > Len(groups) THEN 0 ELSE Len(groups[i]) + GroupSizes(groups, i + 1)

\* C25: groupSimilarTags partitions the distinct input tags: every tag is in
\* exactly one group; each group's first element is its seed, the earliest tag in
\* input order that no earlier group holds; and a tag that no earlier group holds
\* is in the group iff it is similar to the seed, so that similarity to another
\* member alone never brings a tag in.
C25_GroupsPartitionBySeed ==
  lastOp.op = "groupSimilarTags" =>
    LET tags == lastOp.tags
        groups == lastOp.groups
    IN /\ UNION {Range(groups[i]) : i \in DOMAIN groups} = Range(tags)
       /\ GroupSizes(groups, 1) = Cardinality(Range(tags))
       /\ \A i \in DOMAIN groups :
            LET left == {p \in DOMAIN tags : tags[p] \notin GroupedBefore(groups, i)}
                seed == groups[i][1]
            IN /\ left # {}
               /\ seed = tags[CHOOSE p \in left : \A q \in left : p <= q]
               /\ \A p \in left :
                    tags[p] # seed =>
                      (tags[p] \in Range(groups[i]) <=> areTagsSimilar(seed, tags[p]))

\* "api_", "api", "-api": "-api" is similar to "api", a member of the group of
\* "api_", but not to "api_", and makes a group of its own
C25_Witness ==
  /\ lastOp.op = "groupSimilarTags"
  /\ lastOp.tags = <<<<"a", "p", "i", "_">>, <<"a", "p", "i">>, <<"-", "a", "p", "i">>>>
  /\ lastOp.groups = << <<<<"a", "p", "i", "_">>, <<"a", "p", "i">>>>, <<<<"-", "a", "p", "i">>>> >>
  /\ areTagsSimilar(<<"a", "p", "i">>, <<"-", "a", "p", "i">>)

\* The tag without its hyphens and underscores
Cleaned(tag) == SelectSeq(tag, LAMBDA c : c \notin {"-", "_"})

C27_MergeLeavesNothingToMerge ==
  (lastOp.op = "reorganize" /\ Completed("mergeSimilarTags")) =>
    \A g \in Range(groupSimilarTags(getAllTags(memories))) : Len(g) = 1

\* C28: a getMemory or an updateMemory(id, patch) on an existing record, whatever
\* fields the patch contains, leaves the record stored under id with its id and
\* its createdAt, and with updatedAt set to the time of the call (never earlier
\* than its previous value).
C28_IdAndCreatedAtKept ==
  [][(/\ lastOp'.op \in {"getMemory", "updateMemory", "sqliteGetMemory", "sqliteUpdateMemory"}
      /\ lastOp'.id \in DOMAIN memories) =>
       LET id == lastOp'.id
       IN /\ id \in DOMAIN memories'
          /\ memories'[id].id = memories[id].id
          /\ memories'[id].createdAt = memories[id].createdAt
          /\ memories'[id].updatedAt = now'
          /\ memories'[id].updatedAt >= memories[id].updatedAt]_vars

\* The operations that only read the store
ReadOperations ==
  {"searchMemories", "getAllTags", "getAllCategories", "getStats", "getReorganizationStats"}

\* The records of the store have the accessCount and lastAccessedAt they had
AccessStatsKept(ids) ==
  \A id \in ids :
    /\ id \in DOMAIN memories'
    /\ memories'[id].accessCount = memories[id].accessCount
    /\ memories'[id].lastAccessedAt = memories[id].lastAccessedAt

\* C29: accessCount and lastAccessedAt of a record change only when that record
\* is fetched by id: searchMemories, getAllTags, getAllCategories, getStats and
\* getReorganizationStats leave them unchanged for every record, getMemory(id)
\* leaves them unchanged for every record but id, and getMemory of an unknown id
\* returns not-found and leaves the whole store unchanged.
C29_OnlyFetchTouchesAccessStats ==
  [][/\ lastOp'.op \in ReadOperations => AccessStatsKept(DOMAIN memories)
     /\ lastOp'.op = "getMemory" =>
          /\ AccessStatsKept((DOMAIN memories) \ {lastOp'.id})
          /\ lastOp'.id \notin DOMAIN memories =>
               (lastOp'.result = None /\ memories' = memories)]_vars

\* getMemory of an id the store does not hold has returned not-found, and the
\* record the store holds, fetched once before, has the count it had
C29_Witness ==
  /\ lastOp.op = "getMemory"
  /\ lastOp.id = 2
  /\ lastOp.result = None
  /\ DOMAIN memories = {1}
  /\ memories[1].accessCount = 1

\* C30: for the same store contents and the same cap, cleanup(maxMemories) of the
\* SQLite and pgvector backends removes the same set of records and returns the
\* same count as that of the in-memory backend (the victims are the lowest in
\* ascending accessCount, then createdAt).
C30_CleanupSameOnAllBackends ==
  lastOp.op \in {"sqliteCleanup", "pgvectorCleanup"} =>
    LET inMemory == cleanup(lastOp.before, lastOp.maxMemories)
    IN /\ DOMAIN memories = DOMAIN inMemory.memories
       /\ lastOp.removed = inMemory.removed

====
